---- MODULE Spec2Model ----
(***************************************************************************)
(* Verum Web, functions/index.js: the per-model circuit breaker, the        *)
(* OpenAI triple fan-out with its 2-of-3 consensus, and the POST /v1/chat   *)
(* handler that wires them together.                                        *)
(*                                                                          *)
(* Texts are sequences of one-character strings.  Arrays are 1-based here   *)
(* (JavaScript index k is k+1).  A value that may be null/undefined is a    *)
(* sequence of length 0 (absent) or 1 (present).                            *)
(***************************************************************************)
EXTENDS Integers, Sequences, FiniteSets, TLC

VARIABLES
  clock,    \* Date.now()
  breaker,  \* the Map breaker: model -> <<>> or <<[failures, trippedUntil]>>
  keys,     \* the providers whose API key is configured
  req,      \* per request slot: where its handler stands, and its locals
  kv,       \* the Map kv of receipts-kv.js: hash -> <<>> or <<receipt>>
  tmp,      \* the files under /tmp: [dir: path -> inode, data: inode -> file]
  hist,     \* history kept for the properties (set by the harnesses)
  cin,      \* consensus harness: the results array handed to consensus2of3
  cout      \* consensus harness: <<>> or <<what consensus2of3 returned>>

vars == <<clock, breaker, keys, req, kv, tmp, hist, cin, cout>>

(***************************************************************************)
(* Bounds of the model.                                                     *)
(***************************************************************************)
\* Number of chat requests that may be in flight at once.
MaxReqs == 1
\* The clock never advances past this value.
MaxClock == 60001
\* Longest run of consecutive reportFailure calls the breaker harness tracks.
MaxStreak == 4
\* Number of handlers in flight at once where requests run side by side.
MaxConcurrent == 2

(***************************************************************************)
(* Program constants.                                                       *)
(***************************************************************************)
OPENAI_MODELS == <<"gpt-5-mini", "gpt-4o-mini", "gpt-4o">>
FAIL_THRESHOLD == 3
BREAKER_COOLDOWN_MS == 60000
CALL_TIMEOUT_MS == 30000
MAX_MESSAGES == 30
MAX_CONTENT_LEN == 6000
\* The pass threshold 0.6, as the fraction THRESHOLD_NUM / THRESHOLD_DEN.
THRESHOLD_NUM == 3
THRESHOLD_DEN == 5

\* Date.now() at process start (any positive value).
T0 == 1
\* Amounts by which the clock advances between two events.
TickSteps == {CALL_TIMEOUT_MS, BREAKER_COOLDOWN_MS - 1, BREAKER_COOLDOWN_MS}

ModelIds == {OPENAI_MODELS[k] : k \in 1..Len(OPENAI_MODELS)}

(***************************************************************************)
(* Small sequence helpers.                                                  *)
(***************************************************************************)
Range(s) == {s[k] : k \in 1..Len(s)}

(***************************************************************************)
(* Circuit breaker registry: breaker maps a model to <<>> (no Map entry) or *)
(* to <<[failures, trippedUntil]>>.                                         *)
(***************************************************************************)
NoEntry == <<>>

EmptyBreaker == [m \in ModelIds |-> NoEntry]

\* Mutant: the cooldown is still in force at the instant it ends.
breakerAllowedStrict(b, model, now) ==
  b[model] = NoEntry \/ b[model][1].trippedUntil < now

\* breakerAllowed(model), with Date.now() = now.
breakerAllowed(b, model, now) ==
  b[model] = NoEntry \/ b[model][1].trippedUntil <= now

\* Mutant: arming the cooldown leaves the failure count where it is.
breakerReportFailureNoReset(b, model, now) ==
  LET e == IF b[model] = NoEntry
           THEN [failures |-> 0, trippedUntil |-> 0]
           ELSE b[model][1]
      f == e.failures + 1
  IN [b EXCEPT ![model] =
        <<[failures |-> f,
           trippedUntil |-> IF f >= FAIL_THRESHOLD
                            THEN now + BREAKER_COOLDOWN_MS
                            ELSE e.trippedUntil]>>]

\* breakerReportFailure(model), with Date.now() = now: the registry afterwards.
breakerReportFailure(b, model, now) ==
  LET e == IF b[model] = NoEntry
           THEN [failures |-> 0, trippedUntil |-> 0]
           ELSE b[model][1]
      f == e.failures + 1
      e2 == IF f >= FAIL_THRESHOLD
            THEN [failures |-> 0, trippedUntil |-> now + BREAKER_COOLDOWN_MS]
            ELSE [failures |-> f, trippedUntil |-> e.trippedUntil]
  IN [b EXCEPT ![model] = <<e2>>]

\* Mutant: a success clears the whole registry.
breakerReportSuccessClearsAll(b, model) ==
  [m \in DOMAIN b |-> <<[failures |-> 0, trippedUntil |-> 0]>>]

\* Mutant: a success resets the failure count but leaves the cooldown armed.
breakerReportSuccessKeepCooldown(b, model) ==
  [b EXCEPT ![model] =
     <<[failures |-> 0,
        trippedUntil |-> IF b[model] = NoEntry THEN 0
                         ELSE b[model][1].trippedUntil]>>]

\* breakerReportSuccess(model): the registry afterwards.
breakerReportSuccess(b, model) ==
  [b EXCEPT ![model] = <<[failures |-> 0, trippedUntil |-> 0]>>]

(***************************************************************************)
(* normalizeText and the token sets of consensus2of3.                       *)
(***************************************************************************)
\* \s of the regular expressions (the members the sample texts use).
WhiteSpace == {" ", "\t", "\n"}
UpperCase == {"A", "B", "T"}
\* \w: letters, digits and underscore (the members the sample texts use).
WordChars == {"a", "b", "c", "d", "e", "f", "g", "h", "i", "k", "l", "n",
              "o", "r", "s", "t", "u", "w", "y", "0", "1", "_"} \cup UpperCase
\* The punctuation the second replace keeps: . , ; : ! ? ( ) -
KeptPunct == {".", ",", ";", ":", "!", "?", "(", ")", "-"}

\* String.prototype.toLowerCase on one character.
toLowerCase(c) ==
  CASE c = "A" -> "a"
    [] c = "B" -> "b"
    [] c = "T" -> "t"
    [] OTHER -> c

RECURSIVE CollapseWs(_)
\* .replace(/\s+/g, " "): every maximal run of whitespace becomes one space.
CollapseWs(s) ==
  IF s = <<>> THEN <<>>
  ELSE IF Head(s) \in WhiteSpace
       THEN IF Len(s) > 1 /\ s[2] \in WhiteSpace
            THEN CollapseWs(Tail(s))
            ELSE <<" ">> \o CollapseWs(Tail(s))
       ELSE <<Head(s)>> \o CollapseWs(Tail(s))

IsKeptChar(c) == c \in WordChars \cup WhiteSpace \cup KeptPunct

\* .replace(/[^\w\s.,;:!?()-]/g, ""): every other character is deleted.
StripOther(s) == SelectSeq(s, IsKeptChar)

RECURSIVE TrimStart(_)
TrimStart(s) ==
  IF s # <<>> /\ Head(s) \in WhiteSpace THEN TrimStart(Tail(s)) ELSE s

RECURSIVE TrimEnd(_)
TrimEnd(s) ==
  IF s # <<>> /\ s[Len(s)] \in WhiteSpace
  THEN TrimEnd(SubSeq(s, 1, Len(s) - 1))
  ELSE s

\* String.prototype.trim.
Trim(s) == TrimEnd(TrimStart(s))

\* String.prototype.toLowerCase.
LowerCase(t) == [k \in 1..Len(t) |-> toLowerCase(t[k])]

\* normalizeText(s) for a string s.
normalizeText(s) == LowerCase(Trim(StripOther(CollapseWs(s))))

RECURSIVE SplitFrom(_, _)
\* s.split(" ") continued, cur being the piece read so far.
SplitFrom(s, cur) ==
  IF s = <<>> THEN <<cur>>
  ELSE IF Head(s) = " " THEN <<cur>> \o SplitFrom(Tail(s), <<>>)
       ELSE SplitFrom(Tail(s), Append(cur, Head(s)))

\* s.split(" "): "" gives [""], and two adjacent spaces give an empty piece.
Split(s) == SplitFrom(s, <<>>)

\* new Set(normalizeText(content).split(" "))
TokenSet(content) == Range(Split(normalizeText(content)))

(***************************************************************************)
(* consensus2of3.  A score inter / uni is kept as the pair (inter, uni):    *)
(* the token sets are small, so two different quotients differ by far more  *)
(* than a rounding error and equal quotients round to the same double, and  *)
(* comparing doubles is comparing the fractions.                            *)
(***************************************************************************)
\* Mutant: the intersection is measured against the two sizes added up.
SimEntrySumSizes(i, j, a, b) ==
  LET inter == Cardinality({x \in a : x \in b})
      size == Cardinality(a) + Cardinality(b)
      uni == IF size = 0 THEN 1 ELSE size
  IN [i |-> i, j |-> j, inter |-> inter, uni |-> uni]

\* Mutant: the intersection is measured against the first set only.
SimEntryOverFirst(i, j, a, b) ==
  LET inter == Cardinality({x \in a : x \in b})
      size == Cardinality(a)
      uni == IF size = 0 THEN 1 ELSE size
  IN [i |-> i, j |-> j, inter |-> inter, uni |-> uni]

\* The entry pushed for the pair (i, j) with token sets a and b:
\* inter = |a & b|, uni = |a | b| || 1.
SimEntry(i, j, a, b) ==
  LET inter == Cardinality({x \in a : x \in b})
      size == Cardinality(a \cup b)
      uni == IF size = 0 THEN 1 ELSE size
  IN [i |-> i, j |-> j, inter |-> inter, uni |-> uni]

\* One entry of sims for the pair (i, j) of results.
Sim(results, i, j) ==
  SimEntry(i, j, TokenSet(results[i].content), TokenSet(results[j].content))

RECURSIVE PairsFrom(_, _, _)
\* The two nested loops from (i, j) on: sims in the order they are pushed.
PairsFrom(results, i, j) ==
  IF i > Len(results) THEN <<>>
  ELSE IF j > Len(results) THEN PairsFrom(results, i + 1, i + 2)
       ELSE <<Sim(results, i, j)>> \o PairsFrom(results, i, j + 1)

\* Mutant: an equal score also counts as greater, so ties go to the later pair.
ScoreGreaterOrEqual(x, y) == x.inter * y.uni >= y.inter * x.uni

\* x.score > y.score
ScoreGreater(x, y) == x.inter * y.uni > y.inter * x.uni

RECURSIVE InsertSim(_, _)
\* x placed into the sorted sequence s behind every entry it does not beat.
InsertSim(s, x) ==
  IF s = <<>> THEN <<x>>
  ELSE IF ScoreGreater(x, Head(s)) THEN <<x>> \o s
       ELSE <<Head(s)>> \o InsertSim(Tail(s), x)

RECURSIVE SortSims(_)
\* sims.sort((x, y) => y.score - x.score): descending by score, and stable
\* (Array.prototype.sort is stable in Node 20), so equal scores keep the
\* order in which they were pushed.
SortSims(s) ==
  IF s = <<>> THEN <<>>
  ELSE InsertSim(SortSims(SubSeq(s, 1, Len(s) - 1)), s[Len(s)])

\* Mutant: the threshold itself does not pass.
PassesThresholdStrict(best) ==
  best.inter * THRESHOLD_DEN > THRESHOLD_NUM * best.uni

\* best.score >= 0.6
PassesThreshold(best) == best.inter * THRESHOLD_DEN >= THRESHOLD_NUM * best.uni

\* pair[0].content.length >= pair[1].content.length ? pair[0] : pair[1]
LongerOf(p0, p1) == IF Len(p0.content) >= Len(p1.content) THEN p0 ELSE p1

\* Lines 153-157: the verdict over the sorted sims of two or more results.
verdictOf(results, sims) ==
  LET best == IF sims = <<>> THEN [i |-> 0, j |-> 0, inter |-> 0, uni |-> 1]
              ELSE sims[1]
      pass == PassesThreshold(best)
      pair == IF pass THEN <<results[best.i], results[best.j]>> ELSE <<>>
      winner == IF pass THEN <<LongerOf(pair[1], pair[2])>> ELSE <<>>
  IN [consensus |-> IF pass THEN "pass" ELSE "fail", pair |-> pair,
      winner |-> winner, sims |-> sims]

\* consensus2of3(results); winner is <<>> for null or undefined.
consensus2of3(results) ==
  IF Len(results) = 0
  THEN [consensus |-> "fail", pair |-> <<>>, winner |-> <<>>, sims |-> <<>>]
  ELSE IF Len(results) = 1
  THEN [consensus |-> "weak", pair |-> <<>>, winner |-> <<results[1]>>,
        sims |-> <<>>]
  ELSE verdictOf(results, SortSims(PairsFrom(results, 1, 2)))

(***************************************************************************)
(* One outbound call of callOpenAIOnce as the fan-out sees it.              *)
(*   st: "pending"  the fetch (or the read of its body) is in flight        *)
(*       "ok"       2xx and a parsed body: fulfilled with content           *)
(*       "http"     non-2xx status: rejected "openai <model> <status>"      *)
(*       "network"  fetch, resp.text() or resp.json() threw: rejected       *)
(*       "timeout"  the 30 s timer aborted the fetch: rejected              *)
(*       "tripped"  rejected "breaker_tripped:<model>" before any fetch     *)
(* While a call is pending,                                                 *)
(*   timer   tells whether its 30 s abort timer is armed,                   *)
(*   status  is "" until the response headers arrive, then "2xx" or         *)
(*           "non2xx" while the body is read.                               *)
(* raw is the parsed body a single-call backend answered with.              *)
(***************************************************************************)
FailKinds == {"http", "network", "timeout"}
SettledKinds == {"ok", "tripped"} \cup FailKinds
StatusClasses == {"2xx", "non2xx"}

\* A settled call.
Call(st, content) ==
  [st |-> st, content |-> content, timer |-> FALSE, status |-> "",
   raw |-> <<>>]

\* A call in flight.
InFlight(timer, status) ==
  [st |-> "pending", content |-> <<>>, timer |-> timer, status |-> status,
   raw |-> <<>>]

\* Mutant: the fetch is started without asking the breaker.
dispatchCallUnchecked(b, model, now) == InFlight(TRUE, "")

\* The synchronous head of callOpenAIOnce(model, ...), lines 161-165: the
\* breaker check, then setTimeout(() => ac.abort(), 30_000) and the fetch.
dispatchCall(b, model, now) ==
  IF ~breakerAllowed(b, model, now) THEN Call("tripped", <<>>)
  ELSE InFlight(TRUE, "")

\* Whether a pending call of callOpenAIOnce, dispatched at time at, can settle
\* as kind now: the abort needs the armed timer to have run out; a fulfilled
\* call has read a 2xx body; the status error needs a non-2xx response; the
\* fetch, resp.text() and resp.json() can throw at any point.
canSettle(call, kind, at, now) ==
  /\ call.st = "pending"
  /\ kind = "timeout" => (call.timer /\ now >= at + CALL_TIMEOUT_MS)
  /\ kind = "ok" => call.status = "2xx"
  /\ kind = "http" => call.status = "non2xx"

\* Mutant: the reports are applied to an entry read before the other
\* requests' reports were written, and overwrite them.
settleBreakerLostUpdate(b, model, kind, now) ==
  CASE kind = "ok" -> breakerReportSuccess(b, model)
    [] kind = "http" ->
         breakerReportFailure(
           breakerReportFailure([b EXCEPT ![model] = NoEntry], model, now),
           model, now)
    [] kind = "tripped" -> b
    [] OTHER -> breakerReportFailure([b EXCEPT ![model] = NoEntry], model, now)

\* Mutant: the breaker's own rejection is reported as a failure.
settleBreakerCountsTripped(b, model, kind, now) ==
  CASE kind = "ok" -> breakerReportSuccess(b, model)
    [] kind = "http" ->
         breakerReportFailure(breakerReportFailure(b, model, now), model, now)
    [] OTHER -> breakerReportFailure(b, model, now)

\* The breaker bookkeeping of callOpenAIOnce when it settles as kind.
\* A non-2xx status reports at line 177 and then throws inside the try block,
\* so the catch block reports again at line 187.  The breaker's rejection is
\* thrown at line 161, before the try block is entered: nothing is reported.
settleBreaker(b, model, kind, now) ==
  CASE kind = "ok" -> breakerReportSuccess(b, model)
    [] kind = "http" ->
         breakerReportFailure(breakerReportFailure(b, model, now), model, now)
    [] kind = "tripped" -> b
    [] OTHER -> breakerReportFailure(b, model, now)

\* The registry after the synchronous heads of the callOpenAIOnce calls of
\* models.map (line 196), from call k on: the calls the breaker rejected
\* have settled already.
RECURSIVE dispatchBreakerFrom(_, _, _, _, _)
dispatchBreakerFrom(b, models, calls, now, k) ==
  IF k > Len(calls) THEN b
  ELSE dispatchBreakerFrom(
         IF calls[k].st = "tripped"
         THEN settleBreaker(b, models[k], "tripped", now) ELSE b,
         models, calls, now, k + 1)

dispatchBreaker(b, models, calls, now) ==
  dispatchBreakerFrom(b, models, calls, now, 1)

\* json?.choices?.[0]?.message?.content || "": body is <<>> when the field is
\* absent or null, else <<text>>.
extractContent(body) == IF body = <<>> THEN <<>> ELSE body[1]

\* Mutant: the roster is not filtered by the breaker.
candidateModelsUnfiltered(b, override, now) ==
  IF override # <<>> THEN <<override[1]>> ELSE OPENAI_MODELS

\* const models = overrideModel ? [overrideModel] : OPENAI_MODELS.filter(...)
\* if (models.length === 0) models.push(OPENAI_MODELS[0])
candidateModels(b, override, now) ==
  LET Allowed(m) == breakerAllowed(b, m, now)
      models == IF override # <<>> THEN <<override[1]>>
                ELSE SelectSeq(OPENAI_MODELS, Allowed)
  IN IF Len(models) = 0 THEN <<OPENAI_MODELS[1]>> ELSE models

\* Line 200: the object openaiTriple returns, c being consensus2of3's.
tripleReturn(successes, errors, c) ==
  [successes |-> successes, errors |-> errors, consensus |-> c.consensus,
   winner |-> c.winner, sims |-> c.sims]

\* What openaiTriple returns once Promise.allSettled has resolved.
tripleResult(models, calls) ==
  LET idx == [k \in 1..Len(models) |-> k]
      IsOk(k) == calls[k].st = "ok"
      IsRejected(k) == calls[k].st # "ok"
      okIdx == SelectSeq(idx, IsOk)
      errIdx == SelectSeq(idx, IsRejected)
      successes == [n \in 1..Len(okIdx) |->
                      [model |-> models[okIdx[n]],
                       content |-> calls[okIdx[n]].content]]
      errors == [n \in 1..Len(errIdx) |->
                   [model |-> models[errIdx[n]], kind |-> calls[errIdx[n]].st]]
  IN tripleReturn(successes, errors, consensus2of3(successes))

\* Mutant: the join resolves as soon as one call has settled.
anySettled(calls) == \E k \in 1..Len(calls) : calls[k].st \in SettledKinds

\* Promise.allSettled(...) has resolved.
allSettled(calls) == \A k \in 1..Len(calls) : calls[k].st \in SettledKinds

(***************************************************************************)
(* POST /v1/chat.  A request body is                                        *)
(*   [messages: [kind, items], provider: <<>> or <<name>>,                  *)
(*    model: <<>> or <<name>>]                                              *)
(* where messages.kind is "missing", "other" (not an array) or "array", and *)
(* a message is [role, content: [str, len, id]]: whether the content is a   *)
(* string, its length, and a tag telling texts apart.                       *)
(***************************************************************************)
Providers == {"openai", "anthropic", "deepseek"}
ANTHROPIC_DEFAULT_MODEL == "claude-3-5-haiku-20241022"
DEEPSEEK_DEFAULT_MODEL == "deepseek-chat"
\* The length of systemPrompt.content.
SYSTEM_PROMPT_LEN == 498

systemPrompt ==
  [role |-> "system",
   content |-> [str |-> TRUE, len |-> SYSTEM_PROMPT_LEN, id |-> "server"]]

NoOut ==
  [successes |-> <<>>, errors |-> <<>>, consensus |-> "", winner |-> <<>>,
   sims |-> <<>>]

\* A response: the status and the JSON body, absent fields left empty.
Response(status, ok, error) ==
  [status |-> status, ok |-> ok, error |-> error, provider |-> "",
   consensus |-> "", winnerModel |-> "", message |-> <<>>, tried |-> <<>>,
   errors |-> <<>>, details |-> <<>>, model |-> "", result |-> <<>>,
   supportedProviders |-> {}]

\* What a request body forwards to a provider: the system parameter (absent
\* or its text) and the messages array.
NoPayload == [system |-> <<>>, messages |-> <<>>]

IdleReq ==
  [pc |-> "idle", provider |-> "", override |-> <<>>, models |-> <<>>,
   calls |-> <<>>, at |-> 0, sent |-> NoPayload, out |-> NoOut, res |-> <<>>]

\* The handler has answered with res and is finished.
Done(rq, res) == [rq EXCEPT !.pc = "done", !.res = <<res>>]

\* const { messages = [], ... } = req.body: the array the handler works on.
messagesOf(body) ==
  IF body.messages.kind = "array" THEN body.messages.items ELSE <<>>

\* Mutant: the client's system messages are kept.
finalMsgsOfKeepSystem(body) == <<systemPrompt>> \o messagesOf(body)

\* [systemPrompt, ...messages.filter(m => m.role !== "system")]
finalMsgsOf(body) ==
  LET NotSystem(m) == m.role # "system"
  IN <<systemPrompt>> \o SelectSeq(messagesOf(body), NotSystem)

\* Mutant: the thirtieth message is already one too many.
validateOffByOne(body) ==
  LET finalMsgs == finalMsgsOf(body)
  IN IF body.messages.kind = "other" \/ Len(messagesOf(body)) = 0
     THEN "messages array required"
     ELSE IF Len(finalMsgs) >= MAX_MESSAGES THEN "too_many_messages"
     ELSE IF \E k \in 1..Len(finalMsgs) :
               \/ ~finalMsgs[k].content.str
               \/ finalMsgs[k].content.len > MAX_CONTENT_LEN
     THEN "message_too_long"
     ELSE ""

\* Lines 343-364: the error the validation answers with, or "" to go on.
validate(body) ==
  LET finalMsgs == finalMsgsOf(body)
  IN IF body.messages.kind = "other" \/ Len(messagesOf(body)) = 0
     THEN "messages array required"
     ELSE IF Len(finalMsgs) > MAX_MESSAGES THEN "too_many_messages"
     ELSE IF \E k \in 1..Len(finalMsgs) :
               \/ ~finalMsgs[k].content.str
               \/ finalMsgs[k].content.len > MAX_CONTENT_LEN
     THEN "message_too_long"
     ELSE ""

\* out.winner?.model || out.successes[0]?.model
winnerModelOf(out) ==
  IF out.winner # <<>> THEN out.winner[1].model ELSE out.successes[1].model

\* Mutant: no fallback to the first success.
messageOfWinnerOnly(out) ==
  IF out.winner # <<>> THEN out.winner[1].content ELSE <<>>

\* out.winner?.content || out.successes[0]?.content ("" is falsy)
messageOf(out) ==
  IF out.winner # <<>> /\ out.winner[1].content # <<>>
  THEN out.winner[1].content
  ELSE out.successes[1].content

\* Mutant: a fan-out without consensus is answered as a failure.
openaiResponseStrict(out) ==
  IF Len(out.successes) = 0 \/ out.consensus = "fail"
  THEN Response(502, FALSE, "all_models_failed")
  ELSE [Response(200, TRUE, "") EXCEPT
          !.provider = "openai",
          !.consensus = out.consensus,
          !.winnerModel = winnerModelOf(out),
          !.message = messageOf(out),
          !.tried = [k \in 1..Len(out.successes) |-> out.successes[k].model],
          !.errors = out.errors]

\* Lines 368-379: the answer of the openai branch to what openaiTriple returned.
openaiResponse(out) ==
  IF Len(out.successes) = 0
  THEN [Response(502, FALSE, "all_models_failed") EXCEPT
          !.details = SubSeq(out.errors, 1, IF Len(out.errors) < 2
                                            THEN Len(out.errors) ELSE 2)]
  ELSE [Response(200, TRUE, "") EXCEPT
          !.provider = "openai",
          !.consensus = out.consensus,
          !.winnerModel = winnerModelOf(out),
          !.message = messageOf(out),
          !.tried = [k \in 1..Len(out.successes) |-> out.successes[k].model],
          !.errors = out.errors]

\* The handler once openaiTriple has returned out.
respondTriple(rq, out) == [Done(rq, openaiResponse(out)) EXCEPT !.out = out]

\* openaiTriple and the handler after it: once every call has settled the
\* awaits resume and the handler answers; until then the request waits.
resumeTriple(rq) ==
  IF allSettled(rq.calls)
  THEN respondTriple(rq, tripleResult(rq.models, rq.calls))
  ELSE rq

\* openaiTriple up to its await: one callOpenAIOnce per candidate model.
startTriple(rq, b, override, now) ==
  LET models == candidateModels(b, override, now)
  IN resumeTriple([rq EXCEPT
       !.pc = "await",
       !.models = models,
       !.calls = [k \in 1..Len(models) |-> dispatchCall(b, models[k], now)],
       !.at = now])

\* The single fetch of the anthropic and deepseek branches.
startSingle(rq, mdl, now) ==
  [rq EXCEPT !.pc = "await", !.models = <<mdl>>,
             !.calls = <<InFlight(FALSE, "")>>, !.at = now]

\* Lines 171 and 420: the OpenAI and DeepSeek request bodies carry finalMsgs.
chatPayload(finalMsgs) == [system |-> <<>>, messages |-> finalMsgs]

\* m.role === "assistant" ? "assistant" : "user"
anthropicRole(role) == IF role = "assistant" THEN "assistant" ELSE "user"

\* Lines 384-400: the Anthropic request body carries the system prompt as
\* the system parameter and the other messages with their roles mapped.
anthropicPayload(finalMsgs) ==
  LET NotSystem(m) == m.role # "system"
      userMsgs == SelectSeq(finalMsgs, NotSystem)
  IN [system |-> <<systemPrompt.content>>,
      messages |-> [k \in 1..Len(userMsgs) |->
                      [role |-> anthropicRole(userMsgs[k].role),
                       content |-> userMsgs[k].content]]]

\* Mutant: a missing key goes unnoticed.
keyConfiguredAlways(ks, provider) == TRUE

\* if (!OPENAIAPIKEY) ..., if (!ANTHROPICAPIKEY) ..., if (!DEEPSEEKAPIKEY) ...
keyConfigured(ks, provider) == provider \in ks

\* Lines 365-428: the handler after validation, to its first await or to its
\* answer.
routeChat(rq, body, b, ks, now) ==
  LET finalMsgs == finalMsgsOf(body)
      NoKey(name) == Done(rq, Response(400, FALSE, name))
  IN IF rq.provider = "openai"
     THEN IF ~keyConfigured(ks, "openai")
          THEN NoKey("OPENAIAPIKEY not configured")
          ELSE startTriple([rq EXCEPT !.sent = chatPayload(finalMsgs)],
                           b, body.model, now)
     ELSE IF rq.provider = "anthropic"
     THEN IF ~keyConfigured(ks, "anthropic")
          THEN NoKey("ANTHROPICAPIKEY not configured")
          ELSE startSingle([rq EXCEPT !.sent = anthropicPayload(finalMsgs)],
                           IF body.model # <<>> THEN body.model[1]
                           ELSE ANTHROPIC_DEFAULT_MODEL, now)
     ELSE IF rq.provider = "deepseek"
     THEN IF ~keyConfigured(ks, "deepseek")
          THEN NoKey("DEEPSEEKAPIKEY not configured")
          ELSE startSingle([rq EXCEPT !.sent = chatPayload(finalMsgs)],
                           IF body.model # <<>> THEN body.model[1]
                           ELSE DEEPSEEK_DEFAULT_MODEL, now)
     ELSE Done(rq, [Response(400, FALSE, "unknown_provider") EXCEPT
                      !.supportedProviders = Providers])

\* Mutant: a request without selector goes to anthropic.
entryOfDefaultAnthropic(body) ==
  [IdleReq EXCEPT
     !.provider = IF body.provider = <<>> THEN "anthropic"
                  ELSE body.provider[1],
     !.override = body.model]

\* Line 342: the locals provider and model of a handler that has just started.
entryOf(body) ==
  [IdleReq EXCEPT
     !.provider = IF body.provider = <<>> THEN "openai" ELSE body.provider[1],
     !.override = body.model]

\* Mutant: the validation errors are answered only after the routing ran.
startChatLateValidation(body, b, ks, now) ==
  IF validate(body) # ""
  THEN Done(routeChat(entryOf(body), body, b, ks, now),
            Response(400, FALSE, validate(body)))
  ELSE routeChat(entryOf(body), body, b, ks, now)

\* The handler from its entry to its first await or to its answer.
startChat(body, b, ks, now) ==
  IF validate(body) # ""
  THEN Done(entryOf(body), Response(400, FALSE, validate(body)))
  ELSE routeChat(entryOf(body), body, b, ks, now)

\* Mutant: the provider's result is left out of the answer.
singleResponseNoResult(rq, kind, result) ==
  IF kind = "ok"
  THEN [Response(200, TRUE, "") EXCEPT
          !.provider = rq.provider, !.model = rq.models[1]]
  ELSE Response(500, FALSE, kind)

\* The anthropic / deepseek branch once its fetch has settled as kind with
\* the parsed body result: a non-2xx status or a thrown error reaches the
\* handler's catch block.
singleResponse(rq, kind, result) ==
  IF kind = "ok"
  THEN [Response(200, TRUE, "") EXCEPT
          !.provider = rq.provider, !.model = rq.models[1], !.result = result]
  ELSE Response(500, FALSE, kind)

(***************************************************************************)
(* Receipts: receipts-kv.js, signPayload, POST /v1/anchor, GET /v1/receipt. *)
(* A hash is [str, kind, len, id]: whether it is a string, whether all its  *)
(* characters are in a-f0-9 ("hex") or not, its length, and a tag telling   *)
(* hashes apart.  A digest of (hash, issuedAt) is the pair itself, two       *)
(* digests being equal exactly when their inputs are.                       *)
(***************************************************************************)
MIN_HASH_LEN == 64
JWT_LIFETIME_S == 3600
MS_PER_S == 1000
HashIds == {"h1", "h2"}

\* const kv = new Map()
EmptyKv == [h \in HashIds |-> <<>>]

\* putReceipt(hash, receipt): the store afterwards.
putReceipt(store, hash, receipt) == [store EXCEPT ![hash] = <<receipt>>]

\* Mutant: the store is never consulted.
getReceiptNone(store, hash) == <<>>

\* getReceipt(hash): <<>> for null.
getReceipt(store, hash) == store[hash]

\* typeof hash === "string" && /^[a-f0-9]{64,}$/.test(hash)
validHash(h) == h.str /\ h.kind = "hex" /\ h.len >= MIN_HASH_LEN

\* signPayload(payload) with Date.now() = now: the JWT over payload.
signPayload(payload, now) ==
  [payload |-> payload, iss |-> "verum.omnis", iat |-> now \div MS_PER_S,
   exp |-> (now \div MS_PER_S) + JWT_LIFETIME_S]

\* Lines 247-258: the receipt POST /v1/anchor builds at time now.
anchorReceipt(hash, now) ==
  [ok |-> TRUE, chain |-> <<"eth">>, txid |-> <<(<<hash, now>>)>>,
   hash |-> hash, manifestHash |-> "MODELPACK_HASH",
   constitutionHash |-> "CONSTITUTION_HASH", product |-> "PRODUCT_ID",
   issuedAt |-> now, note |-> <<>>, signature |-> <<>>]

\* Lines 278-288: the receipt GET /v1/receipt builds when none is stored.
regeneratedReceipt(hash, now) ==
  [ok |-> TRUE, chain |-> <<>>, txid |-> <<>>,
   hash |-> hash, manifestHash |-> "MODELPACK_HASH",
   constitutionHash |-> "CONSTITUTION_HASH", product |-> "PRODUCT_ID",
   issuedAt |-> now, note |-> <<"Receipt regenerated - no anchor found">>,
   signature |-> <<>>]

\* receipt.signature = await signPayload(receipt)
signedReceipt(receipt, now) ==
  [receipt EXCEPT !.signature = <<signPayload(receipt, now)>>]

\* A handler of the receipt endpoints: where it stands, its endpoint, the
\* tag of its local hash, the receipt it is building, and its response
\* <<[status, error, receipt]>>.
IdleHandler ==
  [pc |-> "idle", endpoint |-> "", hash |-> "", receipt |-> <<>>,
   res |-> <<>>]

Reply(status, error, receipt) ==
  [status |-> status, error |-> error, receipt |-> receipt]

Handled(endpoint, hash, reply) ==
  [pc |-> "done", endpoint |-> endpoint, hash |-> hash, receipt |-> <<>>,
   res |-> <<reply>>]

Signing(endpoint, hash, receipt) ==
  [pc |-> "sign", endpoint |-> endpoint, hash |-> hash,
   receipt |-> <<receipt>>, res |-> <<>>]

\* POST /v1/anchor up to its await.
anchorStart(h, now) ==
  IF ~validHash(h)
  THEN Handled("anchor", h.id, Reply(400, "invalid_hash", <<>>))
  ELSE Signing("anchor", h.id, anchorReceipt(h.id, now))

\* GET /v1/receipt up to its await, or to its answer when a receipt is
\* stored.
receiptStart(store, h, now) ==
  IF ~validHash(h)
  THEN Handled("receipt", h.id, Reply(400, "invalid_hash", <<>>))
  ELSE IF getReceipt(store, h.id) # <<>>
  THEN Handled("receipt", h.id, Reply(200, "", getReceipt(store, h.id)))
  ELSE Signing("receipt", h.id, regeneratedReceipt(h.id, now))

(***************************************************************************)
(* POST /v1/seal.  The temp path of a request is /tmp/verum_<the first 8    *)
(* characters of its hash>.pdf; a hash is [str, kind, len, id, prefix].     *)
(* A path names an inode (0: no such file) and a stream holds the inode it  *)
(* opened, whatever happens to the path afterwards; the data of an inode is *)
(* <<>> (empty) or <<the PDF written to it>>, the stream that finishes last *)
(* deciding what a file written by two streams holds.                       *)
(***************************************************************************)
TmpPaths == {"p1", "p2"}

\* Inodes enough for every path and every open stream.
Inodes == 1..(Cardinality(TmpPaths) + MaxConcurrent)

EmptyTmp == [dir |-> [p \in TmpPaths |-> 0], data |-> [i \in Inodes |-> <<>>]]

\* A handler of POST /v1/seal: where it stands, its locals hash and tmpPath,
\* the PDF makeSealedPdf builds for it, the inode its stream holds, and its
\* response <<[status, error, pdf]>>.
IdleSeal ==
  [pc |-> "idle", hash |-> "", path |-> "", pdf |-> <<>>, fd |-> 0,
   res |-> <<>>]

SealReply(status, error, pdf) ==
  [status |-> status, error |-> error, pdf |-> pdf]

\* The document makeSealedPdf generates for hash with the receipt found.
sealedPdf(hash, receipt) == [hash |-> hash, receipt |-> receipt]

\* Lines 302-317: the handler up to await makeSealedPdf(...).
sealStart(store, h) ==
  IF ~validHash(h)
  THEN [IdleSeal EXCEPT !.pc = "done", !.hash = h.id,
          !.res = <<SealReply(400, "invalid_hash", <<>>)>>]
  ELSE [IdleSeal EXCEPT !.pc = "make", !.hash = h.id, !.path = h.prefix,
          !.pdf = <<sealedPdf(h.id, getReceipt(store, h.id))>>]

\* The inodes in use in files t with handlers rqs: named by a path or held
\* by a stream.
UsedInodes(t, rqs) ==
  {t.dir[p] : p \in TmpPaths} \cup {rqs[r].fd : r \in DOMAIN rqs}

\* The files once the system has released the inodes no longer in use.
Release(t, rqs) ==
  [t EXCEPT !.data = [i \in Inodes |->
                        IF i \in UsedInodes(t, rqs) THEN t.data[i] ELSE <<>>]]

\* fs.createWriteStream(path) opens with flag "w": the inode the path names,
\* or a new one.
openForWrite(t, rqs, path) ==
  IF t.dir[path] # 0 THEN t.dir[path]
  ELSE CHOOSE i \in Inodes \ UsedInodes(t, rqs) :
         \A j \in Inodes \ UsedInodes(t, rqs) : i <= j

\* fs.unlinkSync(path) in try/catch: the path names no file afterwards.
unlinkSync(t, path) == [t EXCEPT !.dir[path] = 0]

(***************************************************************************)
(* Inputs.                                                                  *)
(***************************************************************************)
Reqs == 1..MaxReqs

\* Completions the providers answer with in the chat specification.
ChatTexts == {<<>>, <<"a">>, <<"b">>}

\* Parsed 2xx bodies: the content field absent, or present with a text.
ProviderBodies == {<<>>} \cup {<<t>> : t \in ChatTexts}

UserMsg(id, len) ==
  [role |-> "user", content |-> [str |-> TRUE, len |-> len, id |-> id]]

ClientSystemMsg ==
  [role |-> "system", content |-> [str |-> TRUE, len |-> 9, id |-> "client"]]

Array(items) == [kind |-> "array", items |-> items]

ValidMessages == Array(<<ClientSystemMsg, UserMsg("u1", 5)>>)

\* Message lists the validation refuses.
MessageInputs ==
  { [kind |-> "missing", items |-> <<>>],
    [kind |-> "other", items |-> <<>>],
    Array(<<>>),
    Array([k \in 1..MAX_MESSAGES |-> UserMsg("u1", 5)]),
    Array(<<UserMsg("u2", MAX_CONTENT_LEN + 1)>>),
    Array(<<[role |-> "user",
             content |-> [str |-> FALSE, len |-> 0, id |-> "u3"]]>>) }

ChatBodies ==
  [messages : MessageInputs, provider : {<<>>}, model : {<<>>}]
  \cup
  [messages : {ValidMessages},
   provider : {<<>>, <<"openai">>, <<"anthropic">>, <<"deepseek">>,
               <<"gemini">>},
   model : {<<>>, <<OPENAI_MODELS[3]>>}]

\* Deployments: every key configured, only the OpenAI key, or none.
KeyConfigs == {Providers, {"openai"}, {}}

(***************************************************************************)
(* The chat server.                                                         *)
(***************************************************************************)
\* The models the breaker harness reports on.
HarnessModels == {OPENAI_MODELS[1], OPENAI_MODELS[2]}

InitHarness ==
  /\ hist = [m \in HarnessModels |->
               [streak |-> 0, lastFailAt |-> 0, healed |-> FALSE, prior |-> 0]]
  /\ cin = <<>>
  /\ cout = <<>>

Init ==
  /\ clock = T0
  /\ breaker = EmptyBreaker
  /\ keys \in KeyConfigs
  /\ req = [r \in Reqs |-> IdleReq]
  /\ kv = EmptyKv
  /\ tmp = EmptyTmp
  /\ InitHarness

\* Time passes.
Tick ==
  /\ \E d \in TickSteps : clock + d <= MaxClock /\ clock' = clock + d
  /\ UNCHANGED <<breaker, keys, req, kv, tmp, hist, cin, cout>>

\* A POST /v1/chat arrives on a free slot and runs to its first await.
Chat(r, body) ==
  /\ req[r].pc \in {"idle", "done"}
  /\ req' = [req EXCEPT ![r] = startChat(body, breaker, keys, clock)]
  /\ breaker' = dispatchBreaker(breaker, req'[r].models, req'[r].calls, clock)
  /\ UNCHANGED <<clock, keys, kv, tmp, hist, cin, cout>>

\* The response headers of call k of a fan-out arrive with a status of class
\* status: the fetch resolves, clearTimeout (line 174) disarms the timer,
\* and the body is read.
HeadersOpenAI(r, k, status) ==
  /\ req[r].pc = "await"
  /\ req[r].provider = "openai"
  /\ k \in 1..Len(req[r].calls)
  /\ req[r].calls[k].st = "pending"
  /\ req[r].calls[k].status = ""
  /\ req' = [req EXCEPT ![r].calls[k] = InFlight(FALSE, status)]
  /\ UNCHANGED <<clock, breaker, keys, kv, tmp, hist, cin, cout>>

\* Call k of a fan-out settles as kind (with parsed body on a 2xx); the
\* breaker is told, and when it was the last call the handler answers.
SettleOpenAI(r, k, kind, body) ==
  /\ req[r].pc = "await"
  /\ req[r].provider = "openai"
  /\ k \in 1..Len(req[r].calls)
  /\ canSettle(req[r].calls[k], kind, req[r].at, clock)
  /\ breaker' = settleBreaker(breaker, req[r].models[k], kind, clock)
  /\ LET content == IF kind = "ok" THEN extractContent(body) ELSE <<>>
         rq == [req[r] EXCEPT !.calls[k] = Call(kind, content)]
     IN req' = [req EXCEPT ![r] = resumeTriple(rq)]
  /\ UNCHANGED <<clock, keys, kv, tmp, hist, cin, cout>>

\* The fetch of an anthropic or deepseek request settles.
SettleSingle(r, kind, body) ==
  /\ req[r].pc = "await"
  /\ req[r].provider \in {"anthropic", "deepseek"}
  /\ LET result == IF kind = "ok" THEN body ELSE <<>>
         rq == [req[r] EXCEPT
                  !.calls[1] = [Call(kind, <<>>) EXCEPT !.raw = result]]
     IN req' = [req EXCEPT ![r] = Done(rq, singleResponse(rq, kind, result))]
  /\ UNCHANGED <<clock, breaker, keys, kv, tmp, hist, cin, cout>>

Next ==
  \/ Tick
  \/ \E r \in Reqs, body \in ChatBodies : Chat(r, body)
  \/ \E r \in Reqs, k \in 1..Len(OPENAI_MODELS), status \in StatusClasses :
       HeadersOpenAI(r, k, status)
  \/ \E r \in Reqs, k \in 1..Len(OPENAI_MODELS), body \in ProviderBodies :
       SettleOpenAI(r, k, "ok", body)
  \/ \E r \in Reqs, k \in 1..Len(OPENAI_MODELS), kind \in FailKinds :
       SettleOpenAI(r, k, kind, <<>>)
  \/ \E r \in Reqs, body \in ProviderBodies : SettleSingle(r, "ok", body)
  \/ \E r \in Reqs, kind \in {"http", "network"} : SettleSingle(r, kind, <<>>)

Spec == Init /\ [][Next]_vars

\* What the code guarantees to happen: time passes, and the callback of an
\* armed 30 s timer runs once the timer has run out, so the aborted fetch
\* rejects.  Nothing makes a provider answer.
Fairness ==
  /\ WF_vars(Tick)
  /\ \A r \in Reqs, k \in 1..Len(OPENAI_MODELS) :
       WF_vars(SettleOpenAI(r, k, "timeout", <<>>))

\* The requests of the liveness specification: those that name their model,
\* so that a fan-out is a single call.
LiveBodies == {body \in ChatBodies : body.model # <<>>}

NextLive ==
  \/ Tick
  \/ \E r \in Reqs, body \in LiveBodies : Chat(r, body)
  \/ \E r \in Reqs, k \in 1..Len(OPENAI_MODELS), status \in StatusClasses :
       HeadersOpenAI(r, k, status)
  \/ \E r \in Reqs, k \in 1..Len(OPENAI_MODELS), body \in ProviderBodies :
       SettleOpenAI(r, k, "ok", body)
  \/ \E r \in Reqs, k \in 1..Len(OPENAI_MODELS), kind \in FailKinds :
       SettleOpenAI(r, k, kind, <<>>)
  \/ \E r \in Reqs, body \in ProviderBodies : SettleSingle(r, "ok", body)
  \/ \E r \in Reqs, kind \in {"http", "network"} : SettleSingle(r, kind, <<>>)

SpecLive == Init /\ [][NextLive]_vars /\ Fairness

(***************************************************************************)
(* The chat server with MaxConcurrent handlers side by side, every request  *)
(* an OpenAI request naming the same model, so that calls to one model are  *)
(* in flight together.                                                      *)
(***************************************************************************)
ConcurrentReqs == 1..MaxConcurrent

ConcurrentBodies ==
  { [messages |-> ValidMessages, provider |-> <<"openai">>,
     model |-> <<OPENAI_MODELS[3]>>] }

InitConcurrent ==
  /\ clock = T0
  /\ breaker = EmptyBreaker
  /\ keys = {"openai"}
  /\ req = [r \in ConcurrentReqs |-> IdleReq]
  /\ kv = EmptyKv
  /\ tmp = EmptyTmp
  /\ InitHarness

NextConcurrent ==
  \/ Tick
  \/ \E r \in ConcurrentReqs, body \in ConcurrentBodies : Chat(r, body)
  \/ \E r \in ConcurrentReqs, status \in StatusClasses :
       HeadersOpenAI(r, 1, status)
  \/ \E r \in ConcurrentReqs, body \in ProviderBodies :
       SettleOpenAI(r, 1, "ok", body)
  \/ \E r \in ConcurrentReqs, kind \in FailKinds :
       SettleOpenAI(r, 1, kind, <<>>)

SpecConcurrent == InitConcurrent /\ [][NextConcurrent]_vars

(***************************************************************************)
(* Fan-outs against stubbed providers: cin fixes, per roster model, how the *)
(* provider answers every call to it ([kind, body]); MaxConcurrent requests *)
(* without model override run side by side and their calls settle in any    *)
(* order.  Time stands still, so an armed cooldown stays armed.             *)
(***************************************************************************)
Stub(kind, body) == [kind |-> kind, body |-> body]

Stubs(s1, s2, s3) ==
  [m \in ModelIds |->
     IF m = OPENAI_MODELS[1] THEN s1
     ELSE IF m = OPENAI_MODELS[2] THEN s2 ELSE s3]

FanOutStubs ==
  { Stubs(Stub("ok", <<(<<"a">>)>>), Stub("ok", <<(<<"a">>)>>),
          Stub("ok", <<(<<"b">>)>>)),
    Stubs(Stub("ok", <<(<<"b">>)>>), Stub("http", <<>>),
          Stub("ok", <<(<<"b">>)>>)),
    Stubs(Stub("network", <<>>), Stub("ok", <<(<<"a">>)>>),
          Stub("ok", <<>>)),
    Stubs(Stub("http", <<>>), Stub("network", <<>>), Stub("http", <<>>)) }

FanOutBodies ==
  { [messages |-> ValidMessages, provider |-> <<"openai">>, model |-> <<>>] }

InitFanOut ==
  /\ clock = T0
  /\ breaker = EmptyBreaker
  /\ keys = {"openai"}
  /\ req = [r \in ConcurrentReqs |-> IdleReq]
  /\ kv = EmptyKv
  /\ tmp = EmptyTmp
  /\ hist = [m \in HarnessModels |->
               [streak |-> 0, lastFailAt |-> 0, healed |-> FALSE, prior |-> 0]]
  /\ cin \in FanOutStubs
  /\ cout = <<>>

\* The stubbed provider of call k answers with its headers.
FanOutHeaders(r, k) ==
  /\ k \in 1..Len(req[r].models)
  /\ cin[req[r].models[k]].kind \in {"ok", "http"}
  /\ HeadersOpenAI(r, k, IF cin[req[r].models[k]].kind = "ok"
                         THEN "2xx" ELSE "non2xx")

\* Call k settles the way its stub says.
FanOutSettle(r, k) ==
  /\ k \in 1..Len(req[r].models)
  /\ SettleOpenAI(r, k, cin[req[r].models[k]].kind,
                  cin[req[r].models[k]].body)

NextFanOut ==
  \/ \E r \in ConcurrentReqs, body \in FanOutBodies : Chat(r, body)
  \/ \E r \in ConcurrentReqs, k \in 1..Len(OPENAI_MODELS) :
       FanOutHeaders(r, k)
  \/ \E r \in ConcurrentReqs, k \in 1..Len(OPENAI_MODELS) :
       FanOutSettle(r, k)

SpecFanOut == InitFanOut /\ [][NextFanOut]_vars

(***************************************************************************)
(* The breaker registry on its own: its functions called in any order       *)
(* against a simulated clock.  hist records, per model,                     *)
(*   streak      the reportFailure calls made since the last reportSuccess  *)
(*               (or since the start),                                      *)
(*   lastFailAt  when the last reportFailure was made,                      *)
(*   healed      whether reportSuccess was ever called,                     *)
(*   prior       the streak the last reportSuccess wiped out.               *)
(* cin and cout hold the model and the result of the last breakerAllowed.   *)
(***************************************************************************)
ReportFailure(m) ==
  /\ hist[m].streak < MaxStreak
  /\ breaker' = breakerReportFailure(breaker, m, clock)
  /\ hist' = [hist EXCEPT ![m].streak = @ + 1, ![m].lastFailAt = clock]
  /\ UNCHANGED <<clock, keys, req, kv, tmp, cin, cout>>

ReportSuccess(m) ==
  /\ breaker' = breakerReportSuccess(breaker, m)
  /\ hist' = [hist EXCEPT ![m].streak = 0, ![m].healed = TRUE,
                          ![m].prior = hist[m].streak]
  /\ UNCHANGED <<clock, keys, req, kv, tmp, cin, cout>>

\* breakerAllowed(m) is called: breaker.get reads the Map.
CheckAllowed(m) ==
  /\ cin' = <<m>>
  /\ cout' = <<breakerAllowed(breaker, m, clock)>>
  /\ UNCHANGED <<clock, breaker, keys, req, kv, tmp, hist>>

NextBreaker ==
  \/ Tick
  \/ \E m \in HarnessModels : ReportFailure(m)
  \/ \E m \in HarnessModels : ReportSuccess(m)
  \/ \E m \in ModelIds : CheckAllowed(m)

SpecBreaker == Init /\ [][NextBreaker]_vars

(***************************************************************************)
(* consensus2of3 on its own: applied to the successes a fan-out can hand    *)
(* it, one per roster model that succeeded, in roster order.                *)
(***************************************************************************)
\* "The sky is blue today"
SkyText ==
  <<"T","h","e"," ","s","k","y"," ","i","s"," ","b","l","u","e"," ",
    "t","o","d","a","y">>
\* "The sky is blue today indeed"
SkyIndeedText == SkyText \o <<" ","i","n","d","e","e","d">>
\* "Bananas are yellow"
BananasText ==
  <<"B","a","n","a","n","a","s"," ","a","r","e"," ","y","e","l","l","o","w">>

ConsensusTexts ==
  { <<>>,
    <<"a">>,
    <<"A"," ","b">>,
    <<"a"," ","b"," ","c">>,
    <<"a","\t","\n","b"," ","c"," ","d">>,
    <<"a"," ","b"," ","c"," ","d"," ","e">>,
    <<"a"," ","@"," ","b">>,
    <<"#">>,
    SkyText, SkyIndeedText, BananasText }

RECURSIVE ResultInputsFrom(_)
\* Every results array over the roster models from position k on.
ResultInputsFrom(k) ==
  IF k > Len(OPENAI_MODELS) THEN {<<>>}
  ELSE LET rest == ResultInputsFrom(k + 1)
       IN rest \cup
          {<<[model |-> OPENAI_MODELS[k], content |-> t]>> \o r :
             t \in ConsensusTexts, r \in rest}

ResultInputs == ResultInputsFrom(1)

InitConsensus ==
  /\ clock = T0
  /\ breaker = EmptyBreaker
  /\ keys = Providers
  /\ req = [r \in Reqs |-> IdleReq]
  /\ kv = EmptyKv
  /\ tmp = EmptyTmp
  /\ hist = [m \in HarnessModels |->
               [streak |-> 0, lastFailAt |-> 0, healed |-> FALSE, prior |-> 0]]
  /\ cin \in ResultInputs
  /\ cout = <<>>

ApplyConsensus ==
  /\ cout = <<>>
  /\ cout' = <<consensus2of3(cin)>>
  /\ UNCHANGED <<clock, breaker, keys, req, kv, tmp, hist, cin>>

NextConsensus == ApplyConsensus

SpecConsensus == InitConsensus /\ [][NextConsensus]_vars

(***************************************************************************)
(* The chat handler on its own: applied once to a request body, up to its   *)
(* first await or its answer.  cin is the body, cout the handler's locals.  *)
(***************************************************************************)
Msg(role, id, len) ==
  [role |-> role, content |-> [str |-> TRUE, len |-> len, id |-> id]]

\* A message whose content is not a string.
NoStringMsg == [role |-> "user", content |-> [str |-> FALSE, len |-> 0, id |-> "n1"]]

\* n user messages of 5 characters.
Fill(n) == [k \in 1..n |-> Msg("user", "u1", 5)]

RequestMessages ==
  { [kind |-> "missing", items |-> <<>>],
    [kind |-> "other", items |-> <<>>],
    Array(<<>>),
    Array(<<ClientSystemMsg>>),
    Array(<<Msg("user", "u1", 5)>>),
    Array(<<ClientSystemMsg, Msg("user", "u1", 5)>>),
    Array(<<Msg("user", "u2", 7), Msg("user", "u1", 5)>>),
    Array(<<Msg("user", "u1", 5), ClientSystemMsg, Msg("assistant", "a1", 3),
            Msg("user", "u2", 7)>>),
    Array(<<ClientSystemMsg, Msg("system", "client", 4),
            Msg("user", "u1", 5)>>),
    Array(<<Msg("user", "u1", 5), Msg("assistant", "a1", 3),
            Msg("tool", "t1", 2), Msg("user", "u2", 0)>>),
    Array(<<Msg("user", "u1", MAX_CONTENT_LEN)>>),
    Array(<<Msg("user", "u1", MAX_CONTENT_LEN + 1)>>),
    Array(<<Msg("system", "client", MAX_CONTENT_LEN + 1),
            Msg("user", "u1", 5)>>),
    Array(<<Msg("user", "u1", 5), NoStringMsg>>),
    Array(Fill(MAX_MESSAGES - 2)),
    Array(Fill(MAX_MESSAGES - 1)),
    Array(Fill(MAX_MESSAGES - 2) \o <<Msg("user", "u2", MAX_CONTENT_LEN)>>),
    Array(<<ClientSystemMsg>> \o Fill(MAX_MESSAGES - 1)
            \o <<Msg("system", "client", 4)>>),
    Array(Fill(MAX_MESSAGES)),
    Array(<<ClientSystemMsg>> \o Fill(MAX_MESSAGES)),
    Array(Fill(MAX_MESSAGES - 1)
            \o <<Msg("user", "u2", MAX_CONTENT_LEN + 1)>>),
    Array(Fill(MAX_MESSAGES - 1) \o <<NoStringMsg>>),
    Array(Fill(MAX_MESSAGES - 2)
            \o <<Msg("user", "u2", MAX_CONTENT_LEN + 1)>>) }

RequestBodies ==
  [messages : RequestMessages,
   provider : {<<>>, <<"openai">>, <<"anthropic">>, <<"deepseek">>,
               <<"gemini">>},
   model : {<<>>, <<OPENAI_MODELS[3]>>}]

InitRequest ==
  /\ clock = T0
  /\ breaker = EmptyBreaker
  /\ keys \in KeyConfigs
  /\ req = [r \in Reqs |-> IdleReq]
  /\ kv = EmptyKv
  /\ tmp = EmptyTmp
  /\ hist = [m \in HarnessModels |->
               [streak |-> 0, lastFailAt |-> 0, healed |-> FALSE, prior |-> 0]]
  /\ cin \in RequestBodies
  /\ cout = <<>>

ApplyChat ==
  /\ cout = <<>>
  /\ cout' = <<startChat(cin, breaker, keys, clock)>>
  /\ UNCHANGED <<clock, breaker, keys, req, kv, tmp, hist, cin>>

NextRequest == ApplyChat

SpecRequest == InitRequest /\ [][NextRequest]_vars

(***************************************************************************)
(* The receipt endpoints, MaxConcurrent handlers side by side.  hist keeps, *)
(* per hash, the receipt the last successful anchor answered with.          *)
(***************************************************************************)
Handlers == 1..MaxConcurrent

Hash(kind, len, id) == [str |-> TRUE, kind |-> kind, len |-> len, id |-> id]

HashInputs ==
  { Hash("hex", MIN_HASH_LEN, "h1"),
    Hash("hex", 2 * MIN_HASH_LEN, "h2"),
    Hash("hex", MIN_HASH_LEN - 1, "short"),
    Hash("other", MIN_HASH_LEN, "upper"),
    Hash("hex", 0, "empty"),
    [str |-> FALSE, kind |-> "other", len |-> 0, id |-> "none"] }

\* Deployments: VOSIGNINGKEY set, or not.
SigningConfigs == {{"signing"}, {}}

InitReceipts ==
  /\ clock = T0
  /\ breaker = EmptyBreaker
  /\ keys \in SigningConfigs
  /\ req = [r \in Handlers |-> IdleHandler]
  /\ kv = EmptyKv
  /\ tmp = EmptyTmp
  /\ hist = [h \in HashIds |-> <<>>]
  /\ cin = <<>>
  /\ cout = <<>>

\* A POST /v1/anchor arrives and runs to its await.
AnchorStart(r, h) ==
  /\ req[r].pc \in {"idle", "done"}
  /\ req' = [req EXCEPT ![r] = anchorStart(h, clock)]
  /\ UNCHANGED <<clock, breaker, keys, kv, tmp, hist, cin, cout>>

\* signPayload of an anchor settles: the receipt is stored and answered, or
\* the missing key is answered by the catch block.
AnchorSigned(r) ==
  /\ req[r].pc = "sign"
  /\ req[r].endpoint = "anchor"
  /\ IF "signing" \in keys
     THEN LET receipt == signedReceipt(req[r].receipt[1], clock)
          IN /\ kv' = putReceipt(kv, req[r].hash, receipt)
             /\ hist' = [hist EXCEPT ![req[r].hash] = <<receipt>>]
             /\ req' = [req EXCEPT ![r] =
                          Handled("anchor", req[r].hash,
                                  Reply(200, "", <<receipt>>))]
     ELSE /\ req' = [req EXCEPT ![r] =
                       Handled("anchor", req[r].hash,
                               Reply(500, "VOSIGNINGKEY not set", <<>>))]
          /\ UNCHANGED <<kv, hist>>
  /\ UNCHANGED <<clock, breaker, keys, tmp, cin, cout>>

\* A GET /v1/receipt arrives and runs to its answer or to its await.
ReceiptStart(r, h) ==
  /\ req[r].pc \in {"idle", "done"}
  /\ req' = [req EXCEPT ![r] = receiptStart(kv, h, clock)]
  /\ UNCHANGED <<clock, breaker, keys, kv, tmp, hist, cin, cout>>

\* signPayload of a regenerated receipt settles.
ReceiptSigned(r) ==
  /\ req[r].pc = "sign"
  /\ req[r].endpoint = "receipt"
  /\ req' = [req EXCEPT ![r] =
               IF "signing" \in keys
               THEN Handled("receipt", req[r].hash,
                            Reply(200, "",
                                  <<signedReceipt(req[r].receipt[1], clock)>>))
               ELSE Handled("receipt", req[r].hash,
                            Reply(500, "VOSIGNINGKEY not set", <<>>))]
  /\ UNCHANGED <<clock, breaker, keys, kv, tmp, hist, cin, cout>>

NextReceipts ==
  \/ Tick
  \/ \E r \in Handlers, h \in HashInputs : AnchorStart(r, h)
  \/ \E r \in Handlers : AnchorSigned(r)
  \/ \E r \in Handlers, h \in HashInputs : ReceiptStart(r, h)
  \/ \E r \in Handlers : ReceiptSigned(r)

SpecReceipts == InitReceipts /\ [][NextReceipts]_vars

(***************************************************************************)
(* POST /v1/seal, MaxConcurrent handlers side by side.                      *)
(***************************************************************************)
SealHash(kind, id, prefix) ==
  [str |-> TRUE, kind |-> kind, len |-> 2 * MIN_HASH_LEN, id |-> id,
   prefix |-> prefix]

\* Two hashes with the same first 8 characters, one with other ones, and one
\* that is not lowercase hexadecimal.
SealInputs ==
  { SealHash("hex", "h1", "p1"), SealHash("hex", "h2", "p1"),
    SealHash("hex", "h3", "p2"), SealHash("other", "bad", "p2") }

InitSeal ==
  /\ clock = T0
  /\ breaker = EmptyBreaker
  /\ keys = {"signing"}
  /\ req = [r \in Handlers |-> IdleSeal]
  /\ kv = [h \in {"h1", "h2", "h3"} |-> <<>>]
  /\ tmp = EmptyTmp
  /\ hist = <<>>
  /\ cin = <<>>
  /\ cout = <<>>

\* A POST /v1/seal arrives and runs to await makeSealedPdf(...).
SealStart(r, h) ==
  /\ req[r].pc \in {"idle", "done"}
  /\ req' = [req EXCEPT ![r] = sealStart(kv, h)]
  /\ UNCHANGED <<clock, breaker, keys, kv, tmp, hist, cin, cout>>

\* makeSealedPdf resolves: lines 325-327 create the write stream and pipe.
SealMade(r) ==
  /\ req[r].pc = "make"
  /\ req' = [req EXCEPT ![r].pc = "open"]
  /\ UNCHANGED <<clock, breaker, keys, kv, tmp, hist, cin, cout>>

\* The write stream opens its file, creating or truncating it.
SealOpened(r) ==
  /\ req[r].pc = "open"
  /\ LET i == openForWrite(tmp, req, req[r].path)
     IN /\ req' = [req EXCEPT ![r].pc = "write", ![r].fd = i]
        /\ tmp' = [tmp EXCEPT !.dir[req[r].path] = i, !.data[i] = <<>>]
  /\ UNCHANGED <<clock, breaker, keys, kv, hist, cin, cout>>

\* The write stream finishes: the PDF is in its file, the stream is closed
\* and line 331 calls res.sendFile(tmpPath, ...).
SealFinish(r) ==
  /\ req[r].pc = "write"
  /\ req' = [req EXCEPT ![r].pc = "stat", ![r].fd = 0]
  /\ tmp' = Release([tmp EXCEPT !.data[req[r].fd] = req[r].pdf], req')
  /\ UNCHANGED <<clock, breaker, keys, kv, hist, cin, cout>>

\* res.sendFile looks the path up and opens it for reading; when there is
\* no such file the callback of line 331 gets the error, its unlinkSync
\* throws into the empty catch, and no response is ever written.
SealSendOpen(r) ==
  /\ req[r].pc = "stat"
  /\ req' = [req EXCEPT ![r] =
               IF tmp.dir[req[r].path] = 0 THEN [req[r] EXCEPT !.pc = "hung"]
               ELSE [req[r] EXCEPT !.pc = "read",
                                   !.fd = tmp.dir[req[r].path]]]
  /\ UNCHANGED <<clock, breaker, keys, kv, tmp, hist, cin, cout>>

\* The transfer ends: the response has delivered what the file held, and
\* the callback of line 331 unlinks the path.
SealSent(r) ==
  /\ req[r].pc = "read"
  /\ req' = [req EXCEPT ![r].pc = "done", ![r].fd = 0,
                        ![r].res = <<SealReply(200, "", tmp.data[req[r].fd])>>]
  /\ tmp' = Release(unlinkSync(tmp, req[r].path), req')
  /\ UNCHANGED <<clock, breaker, keys, kv, hist, cin, cout>>

NextSeal ==
  \/ \E r \in Handlers, h \in SealInputs : SealStart(r, h)
  \/ \E r \in Handlers : SealMade(r)
  \/ \E r \in Handlers : SealOpened(r)
  \/ \E r \in Handlers : SealFinish(r)
  \/ \E r \in Handlers : SealSendOpen(r)
  \/ \E r \in Handlers : SealSent(r)

SpecSeal == InitSeal /\ [][NextSeal]_vars

(***************************************************************************)
(* Properties.                                                              *)
(***************************************************************************)
\* The fan-out of request rq ran: openaiTriple was called.
FanOutRan(rq) == rq.provider = "openai" /\ rq.models # <<>>

\* The handler of rq has sent its response.
Answered(rq) == rq.pc = "done" /\ rq.res # <<>>

\* The calls of rq that were fulfilled.
OkIdx(rq) == {k \in 1..Len(rq.calls) : rq.calls[k].st = "ok"}

\* The first fulfilled call of rq.
FirstOk(rq) == CHOOSE k \in OkIdx(rq) : \A j \in OkIdx(rq) : k <= j

\* The Jaccard similarity of the token sets of two texts is at least 0.6.
JaccardAtLeast06(t1, t2) ==
  5 * Cardinality(TokenSet(t1) \cap TokenSet(t2))
    >= 3 * Cardinality(TokenSet(t1) \cup TokenSet(t2))

\* Two fulfilled calls of rq corroborate each other.
Corroborated(rq) ==
  \E i \in OkIdx(rq), j \in OkIdx(rq) :
    i < j /\ JaccardAtLeast06(rq.calls[i].content, rq.calls[j].content)

\* C1: a model that never had a success and got 1 or 2 reportFailure calls is
\* allowed; after exactly 3, the third at time t, it is allowed exactly at the
\* clock values from t + 60000 on.
C1_BreakerThreshold ==
  \A m \in HarnessModels :
    ~hist[m].healed =>
      /\ hist[m].streak \in {1, 2} => breakerAllowed(breaker, m, clock)
      /\ hist[m].streak = 3 =>
           (breakerAllowed(breaker, m, clock)
              <=> clock >= hist[m].lastFailAt + 60000)

\* C1 witness: the third failure was 60000 ms ago and the model is allowed.
C1_Witness ==
  \E m \in HarnessModels :
    /\ ~hist[m].healed
    /\ hist[m].streak = 3
    /\ clock = hist[m].lastFailAt + 60000
    /\ breakerAllowed(breaker, m, clock)

\* C2 (as claimed): a fan-out call that settles as a failure is recorded as
\* exactly one reportFailure for its model, and one that settles as a
\* success as exactly one reportSuccess.
C2_OneReportPerCall ==
  [][\A r \in Reqs :
       (req[r].pc = "await" /\ req[r].provider = "openai") =>
         \A k \in 1..Len(req[r].calls) :
           LET m == req[r].models[k] IN
           (req[r].calls[k].st = "pending"
              /\ req'[r].calls[k].st # "pending") =>
             /\ req'[r].calls[k].st \in FailKinds =>
                  breaker'[m] = breakerReportFailure(breaker, m, clock)[m]
             /\ req'[r].calls[k].st = "ok" =>
                  breaker'[m] = breakerReportSuccess(breaker, m)[m]]_vars

\* C3: once reportSuccess(m) was called, and until the next reportFailure(m),
\* m has consecutiveFailures 0 and no cooldown and is allowed; 1 or 2
\* failures after a success leave m allowed with no cooldown, whatever was
\* reported before the success.
C3_SuccessHeals ==
  \A m \in HarnessModels :
    hist[m].healed =>
      /\ hist[m].streak = 0 =>
           /\ breaker[m] = <<[failures |-> 0, trippedUntil |-> 0]>>
           /\ breakerAllowed(breaker, m, clock)
      /\ hist[m].streak \in {1, 2} =>
           /\ breaker[m] = <<[failures |-> hist[m].streak, trippedUntil |-> 0]>>
           /\ breakerAllowed(breaker, m, clock)

\* C3 witness: reportSuccess came right after the third failure had armed the
\* cooldown, and the cooldown would still be running.
C3_Witness ==
  \E m \in HarnessModels :
    /\ hist[m].healed
    /\ hist[m].prior = 3
    /\ hist[m].streak = 0
    /\ clock < hist[m].lastFailAt + 60000
    /\ breakerAllowed(breaker, m, clock)

\* C4 (as claimed): a fan-out without override is never answered without at
\* least one call that reached the provider, whatever the breakers say.
C4_FallbackReachesProvider ==
  \A r \in Reqs :
    (Answered(req[r]) /\ FanOutRan(req[r]) /\ req[r].override = <<>>) =>
      \E k \in 1..Len(req[r].calls) : req[r].calls[k].st # "tripped"

\* C5 (as claimed): two or more successes none of which corroborate each
\* other are answered as a failure.
C5_UncorroboratedIsFailure ==
  \A r \in Reqs :
    (Answered(req[r]) /\ FanOutRan(req[r])
       /\ Cardinality(OkIdx(req[r])) >= 2 /\ ~Corroborated(req[r])) =>
      ~req[r].res[1].ok

\* C5 (amended): two or more successes none of which corroborate each other
\* are answered ok:true with consensus "fail", the first success's content as
\* message and its model as winnerModel.
C5_UncorroboratedFallsBack ==
  \A r \in Reqs :
    (Answered(req[r]) /\ FanOutRan(req[r])
       /\ Cardinality(OkIdx(req[r])) >= 2 /\ ~Corroborated(req[r])) =>
      LET res == req[r].res[1]
          k == FirstOk(req[r])
      IN /\ res.ok
         /\ res.status = 200
         /\ res.consensus = "fail"
         /\ res.message = req[r].calls[k].content
         /\ res.winnerModel = req[r].models[k]

\* C5 witness: three different models succeeded with pairwise dissimilar,
\* non-empty answers.
C5_Witness ==
  \E r \in Reqs :
    /\ Answered(req[r]) /\ FanOutRan(req[r])
    /\ Cardinality(OkIdx(req[r])) >= 2 /\ ~Corroborated(req[r])
    /\ req[r].calls[FirstOk(req[r])].content # <<>>

\* C6: a fan-out request is answered all_models_failed exactly when no call
\* succeeded; with at least one success the answer is ok:true, and when no
\* two successes corroborate each other it carries the first success.
C6_FailedIffNoSuccess ==
  \A r \in Reqs :
    (Answered(req[r]) /\ req[r].provider = "openai") =>
      LET res == req[r].res[1]
          oks == OkIdx(req[r])
      IN /\ res.error = "all_models_failed"
              <=> (FanOutRan(req[r]) /\ oks = {})
         /\ (FanOutRan(req[r]) /\ oks # {}) =>
              /\ res.ok
              /\ res.status = 200
              /\ (Cardinality(oks) = 1 \/ ~Corroborated(req[r])) =>
                   /\ res.message = req[r].calls[FirstOk(req[r])].content
                   /\ res.winnerModel = req[r].models[FirstOk(req[r])]

\* C6 witness: all three roster models were called, every call failed, and
\* the answer is all_models_failed.
C6_Witness ==
  \E r \in Reqs :
    /\ Answered(req[r]) /\ FanOutRan(req[r])
    /\ Len(req[r].calls) = 3
    /\ \A k \in 1..3 : req[r].calls[k].st \in FailKinds
    /\ req[r].res[1].error = "all_models_failed"
    /\ ~req[r].res[1].ok

\* C7 (as claimed): in an ok:true fan-out response with a winner, message is
\* the winner's content, winnerModel is the winner's model, and the call to
\* winnerModel is the one that produced message.
C7_MessageIsWinners ==
  \A r \in Reqs :
    (Answered(req[r]) /\ FanOutRan(req[r]) /\ req[r].res[1].ok
       /\ req[r].out.winner # <<>>) =>
      LET res == req[r].res[1]
          w == req[r].out.winner[1]
      IN /\ res.message = w.content
         /\ res.winnerModel = w.model
         /\ \E k \in OkIdx(req[r]) :
              /\ req[r].models[k] = res.winnerModel
              /\ req[r].calls[k].content = res.message

\* Some pair of the results cin corroborates.
CinCorroborated ==
  \E i \in 1..Len(cin), j \in 1..Len(cin) :
    i < j /\ JaccardAtLeast06(cin[i].content, cin[j].content)

\* C8: no result gives fail without winner; one result gives weak with that
\* result as winner; two or more give pass when some pair scores at least
\* 0.6 and fail without winner otherwise.  A winner exists exactly for pass
\* and weak, and is one of the results.
C8_VerdictFromSuccesses ==
  cout # <<>> =>
    LET c == cout[1]
        n == Len(cin)
    IN /\ n = 0 => (c.consensus = "fail" /\ c.winner = <<>>)
       /\ n = 1 => (c.consensus = "weak" /\ c.winner = <<cin[1]>>)
       /\ (n >= 2 /\ CinCorroborated) => c.consensus = "pass"
       /\ (n >= 2 /\ ~CinCorroborated) =>
            (c.consensus = "fail" /\ c.winner = <<>>)
       /\ c.winner # <<>> <=> c.consensus \in {"pass", "weak"}
       /\ c.winner # <<>> => c.winner[1] \in Range(cin)

\* C8 witness: three results whose best pair scores exactly 0.6 pass.
C8_Witness ==
  /\ cout # <<>>
  /\ Len(cin) = 3
  /\ cout[1].consensus = "pass"
  /\ \A i \in 1..3, j \in 1..3 :
       i < j =>
         5 * Cardinality(TokenSet(cin[i].content) \cap TokenSet(cin[j].content))
           <= 3 * Cardinality(TokenSet(cin[i].content)
                                \cup TokenSet(cin[j].content))

\* The pairs (i, j), i < j, of the results cin.
CinPairs == {p \in (1..Len(cin)) \X (1..Len(cin)) : p[1] < p[2]}

\* The score of pair p is at least the score of pair q.
CinScoreGeq(p, q) ==
  LET a == TokenSet(cin[p[1]].content)
      b == TokenSet(cin[p[2]].content)
      c == TokenSet(cin[q[1]].content)
      d == TokenSet(cin[q[2]].content)
  IN Cardinality(a \cap b) * Cardinality(c \cup d)
       >= Cardinality(c \cap d) * Cardinality(a \cup b)

\* Pair p has the maximum score.
CinIsMax(p) == \A q \in CinPairs : CinScoreGeq(p, q)

\* Pair p comes no later than pair q in ascending (i, j) order.
PairLeq(p, q) == p[1] < q[1] \/ (p[1] = q[1] /\ p[2] <= q[2])

\* C9: on pass with two or more results, the winning pair is the first pair
\* in ascending (i, j) order among those with the maximum score, and the
\* winner is its member with the longer content, the first on equal length.
C9_WinningPair ==
  (cout # <<>> /\ Len(cin) >= 2 /\ cout[1].consensus = "pass") =>
    LET p == CHOOSE p \in CinPairs :
               CinIsMax(p) /\ \A q \in CinPairs : CinIsMax(q) => PairLeq(p, q)
        x == cin[p[1]]
        y == cin[p[2]]
    IN /\ cout[1].pair = <<x, y>>
       /\ cout[1].winner =
            <<IF Len(x.content) > Len(y.content) THEN x
              ELSE IF Len(y.content) > Len(x.content) THEN y
              ELSE x>>

\* C9 witness: three results, every pair with the same passing score and
\* every content equally long; the first result wins.
C9_Witness ==
  /\ cout # <<>>
  /\ Len(cin) = 3
  /\ cout[1].consensus = "pass"
  /\ \A p \in CinPairs, q \in CinPairs : CinScoreGeq(p, q)
  /\ Len(cin[1].content) = Len(cin[2].content)
  /\ Len(cin[2].content) = Len(cin[3].content)
  /\ cin[1].content # <<>>
  /\ cout[1].winner = <<cin[1]>>

\* C10: a fan-out request is answered only when every one of its calls has
\* settled, and then successes plus errors number the candidate models; and
\* while it waits, a step changes at most one of its calls, so a call that
\* fails or times out leaves the others in flight.
C10_SettleAll ==
  /\ [](\A r \in Reqs :
          FanOutRan(req[r]) =>
            /\ Len(req[r].calls) = Len(req[r].models)
            /\ (req[r].pc = "done" \/ req[r].res # <<>>) =>
                 /\ \A k \in 1..Len(req[r].calls) :
                      req[r].calls[k].st \in SettledKinds
                 /\ Len(req[r].out.successes) + Len(req[r].out.errors)
                      = Len(req[r].models))
  /\ [][\A r \in Reqs :
          (FanOutRan(req[r]) /\ req[r].pc = "await") =>
            /\ req'[r].models = req[r].models
            /\ Cardinality({k \in 1..Len(req[r].calls) :
                              req'[r].calls[k] # req[r].calls[k]}) <= 1]_vars

\* C10 witness: three calls went out; one timed out, one got a non-2xx
\* status, one succeeded, and the answer lists 1 success and 2 errors.
C10_Witness ==
  \E r \in Reqs :
    /\ Answered(req[r]) /\ FanOutRan(req[r])
    /\ Len(req[r].calls) = 3
    /\ \E i \in 1..3, j \in 1..3, k \in 1..3 :
         /\ req[r].calls[i].st = "timeout"
         /\ req[r].calls[j].st = "http"
         /\ req[r].calls[k].st = "ok"
    /\ Len(req[r].out.successes) = 1
    /\ Len(req[r].out.errors) = 2

\* C11 (as claimed): with a model override the candidates are that one model,
\* and its call goes to the provider whatever its breaker says.
C11_OverrideBypassesBreaker ==
  \A r \in Reqs :
    (FanOutRan(req[r]) /\ req[r].override # <<>>) =>
      /\ req[r].models = <<req[r].override[1]>>
      /\ req[r].calls[1].st # "tripped"

ValidationErrors ==
  {"messages array required", "too_many_messages", "message_too_long"}

\* The client messages of body that are forwarded: those not of role system.
ForwardedIdx(body) ==
  {k \in 1..Len(body.messages.items) : body.messages.items[k].role # "system"}

\* What the validation has to answer to body: the error, or "" to accept.
ExpectedError(body) ==
  IF body.messages.kind # "array" \/ Len(body.messages.items) = 0
  THEN "messages array required"
  ELSE IF 1 + Cardinality(ForwardedIdx(body)) > 30 THEN "too_many_messages"
  ELSE IF \E k \in ForwardedIdx(body) :
            \/ ~body.messages.items[k].content.str
            \/ body.messages.items[k].content.len > 6000
  THEN "message_too_long"
  ELSE ""

\* C12: the handler answers a body with the first validation error that
\* applies (messages array required, then too_many_messages, then
\* message_too_long) as a 400 ok:false, and answers no validation error to a
\* body none applies to.
C12_ValidationOrder ==
  cout # <<>> =>
    /\ ExpectedError(cin) # "" =>
         /\ cout[1].pc = "done"
         /\ cout[1].res = <<Response(400, FALSE, ExpectedError(cin))>>
    /\ ExpectedError(cin) = "" =>
         (cout[1].res = <<>> \/ cout[1].res[1].error \notin ValidationErrors)

\* C12 witness: 29 client messages, the last of exactly 6000 characters, make
\* 30 forwarded messages, and the fan-out is dispatched.
C12_Witness ==
  /\ cout # <<>>
  /\ cin.messages.kind = "array"
  /\ 1 + Cardinality(ForwardedIdx(cin)) = 30
  /\ \E k \in ForwardedIdx(cin) : cin.messages.items[k].content.len = 6000
  /\ cout[1].pc = "await"
  /\ Len(cout[1].sent.messages) = 30

\* C13: a request answered with a validation error has dispatched no call
\* and no fan-out, and the step that answers it leaves the breaker registry
\* as it was.
C13_RejectedHasNoEffect ==
  /\ [](\A r \in Reqs :
          (Answered(req[r]) /\ req[r].res[1].error \in ValidationErrors) =>
            /\ req[r].calls = <<>>
            /\ req[r].models = <<>>
            /\ req[r].out = NoOut
            /\ req[r].sent = NoPayload)
  /\ [][\A r \in Reqs :
          (req'[r] # req[r] /\ req'[r].pc = "done"
             /\ req'[r].res[1].error \in ValidationErrors) =>
            breaker' = breaker]_vars

\* C13 witness: a request is rejected as too long while a breaker is open.
C13_Witness ==
  \E r \in Reqs :
    /\ Answered(req[r])
    /\ req[r].res[1].error = "message_too_long"
    /\ \E m \in ModelIds : ~breakerAllowed(breaker, m, clock)

\* The configuration error the handler answers for a backend without key.
KeyError(provider) ==
  CASE provider = "openai" -> "OPENAIAPIKEY not configured"
    [] provider = "anthropic" -> "ANTHROPICAPIKEY not configured"
    [] provider = "deepseek" -> "DEEPSEEKAPIKEY not configured"

\* C14: a request that passed validation and asks for a backend whose key is
\* missing is answered 400 ok:false with that backend's configuration error
\* and has dispatched no call; the step that answers it leaves the breaker
\* registry as it was.
C14_MissingKeyRejected ==
  /\ [](\A r \in Reqs :
          (req[r].pc # "idle" /\ req[r].provider \in Providers
             /\ req[r].provider \notin keys
             /\ ~(req[r].res # <<>>
                    /\ req[r].res[1].error \in ValidationErrors)) =>
            /\ req[r].res = <<Response(400, FALSE, KeyError(req[r].provider))>>
            /\ req[r].pc = "done"
            /\ req[r].calls = <<>>
            /\ req[r].models = <<>>)
  /\ [][\A r \in Reqs :
          (req'[r] # req[r] /\ req'[r].provider \in Providers
             /\ req'[r].provider \notin keys) =>
            breaker' = breaker]_vars

\* C14 witness: an anthropic request on a deployment with only the OpenAI
\* key is answered with the configuration error while a breaker is open.
C14_Witness ==
  \E r \in Reqs :
    /\ Answered(req[r])
    /\ req[r].provider = "anthropic"
    /\ "anthropic" \notin keys
    /\ req[r].res[1].error = "ANTHROPICAPIKEY not configured"
    /\ ~req[r].res[1].ok
    /\ \E m \in ModelIds : ~breakerAllowed(breaker, m, clock)

\* The index of the n-th forwarded client message of body.
NthForwarded(body, n) ==
  CHOOSE k \in ForwardedIdx(body) :
    Cardinality({j \in ForwardedIdx(body) : j <= k}) = n

\* The conversation a payload carries: the system parameter, if any, then
\* the messages.
Conversation(p) ==
  (IF p.system # <<>> THEN <<[role |-> "system", content |-> p.system[1]]>>
   ELSE <<>>) \o p.messages

\* C15: whenever the handler dispatches a request to a backend, the
\* conversation it sends is the server's system prompt followed by the
\* client's messages of a role other than system, in their order and with
\* their content; nothing else of role system is sent.
C15_ForwardedConversation ==
  (cout # <<>> /\ cout[1].models # <<>>) =>
    LET conv == Conversation(cout[1].sent)
        n == Cardinality(ForwardedIdx(cin))
    IN /\ Len(conv) = 1 + n
       /\ conv[1] = systemPrompt
       /\ \A k \in 1..n :
            /\ conv[k + 1].content
                 = cin.messages.items[NthForwarded(cin, k)].content
            /\ conv[k + 1].role # "system"

\* C15 witness: a request with a system message between its other messages
\* went to anthropic.
C15_Witness ==
  /\ cout # <<>>
  /\ cout[1].models # <<>>
  /\ cout[1].provider = "anthropic"
  /\ Len(cin.messages.items) = 4
  /\ cin.messages.items[2].role = "system"
  /\ Len(cout[1].sent.messages) = 3

\* C16: a request that passed validation and names a backend other than
\* openai, anthropic and deepseek is answered 400 unknown_provider with the
\* three supported backends and has dispatched no call; one that names no
\* backend is handled by the openai branch.
C16_UnknownProvider ==
  (cout # <<>> /\ ExpectedError(cin) = "") =>
    /\ (cin.provider # <<>>
          /\ cin.provider[1] \notin {"openai", "anthropic", "deepseek"}) =>
         /\ cout[1].pc = "done"
         /\ cout[1].res =
              <<[Response(400, FALSE, "unknown_provider") EXCEPT
                   !.supportedProviders = {"openai", "anthropic", "deepseek"}]>>
         /\ cout[1].calls = <<>>
         /\ cout[1].models = <<>>
    /\ cin.provider = <<>> =>
         /\ cout[1].provider = "openai"
         /\ "openai" \in keys => FanOutRan(cout[1])
         /\ "openai" \notin keys =>
              cout[1].res = <<Response(400, FALSE, KeyError("openai"))>>

\* C16 witness: a valid request for gemini is answered unknown_provider.
C16_Witness ==
  /\ cout # <<>>
  /\ ExpectedError(cin) = ""
  /\ cin.provider = <<"gemini">>
  /\ cout[1].res[1].error = "unknown_provider"

\* C17 (as claimed): every provider call in flight, of any backend, has its
\* 30 s abort timer armed.
C17_EveryCallHasTimeout ==
  \A r \in Reqs :
    \A k \in 1..Len(req[r].calls) :
      req[r].calls[k].st = "pending" => req[r].calls[k].timer

\* C18 (as claimed): every request that waits for a provider is eventually
\* answered, whatever the providers do (for requests dispatched early enough
\* for the 30 s to pass within the modelled time).
C18_EveryRequestAnswered ==
  \A r \in Reqs :
    (req[r].pc = "await" /\ req[r].at + CALL_TIMEOUT_MS <= MaxClock)
      ~> (req[r].pc = "done")

SingleBackends == {"anthropic", "deepseek"}

\* The model a single-call backend uses when the request names none.
DefaultModel(provider) ==
  IF provider = "anthropic" THEN "claude-3-5-haiku-20241022"
  ELSE "deepseek-chat"

\* C19: a request dispatched to anthropic or deepseek makes exactly one call,
\* to the model named in the request or else the backend's default, and runs
\* no consensus; answered ok:true it carries that model and the parsed body
\* the provider answered with, unchanged; and no step of such a request
\* changes the breaker registry.
C19_SingleCallBackends ==
  /\ [](\A r \in Reqs :
          (req[r].provider \in SingleBackends /\ req[r].models # <<>>) =>
            /\ Len(req[r].calls) = 1
            /\ req[r].models =
                 <<IF req[r].override # <<>> THEN req[r].override[1]
                   ELSE DefaultModel(req[r].provider)>>
            /\ req[r].out = NoOut
            /\ Answered(req[r]) =>
                 IF req[r].calls[1].st = "ok"
                 THEN req[r].res =
                        <<[Response(200, TRUE, "") EXCEPT
                             !.provider = req[r].provider,
                             !.model = req[r].models[1],
                             !.result = req[r].calls[1].raw]>>
                 ELSE ~req[r].res[1].ok /\ req[r].res[1].status = 500)
  /\ [][\A r \in Reqs :
          (req'[r] # req[r]
             /\ (req[r].provider \in SingleBackends
                   \/ req'[r].provider \in SingleBackends)) =>
            breaker' = breaker]_vars

\* C19 witness: a deepseek request naming its model is answered with the
\* provider's body while a breaker is open.
C19_Witness ==
  \E r \in Reqs :
    /\ Answered(req[r])
    /\ req[r].provider = "deepseek"
    /\ req[r].override # <<>>
    /\ req[r].res[1].ok
    /\ req[r].res[1].result = <<(<<"b">>)>>
    /\ req[r].res[1].model = req[r].override[1]
    /\ \E m \in ModelIds : ~breakerAllowed(breaker, m, clock)

\* C20: the score of the pair (i, j) of the results is the score of the pair
\* (j, i): the same intersection and the same union, hence the same quotient;
\* and the scores consensus2of3 returned are those.
C20_ScoreSymmetric ==
  cout # <<>> =>
    /\ \A i \in 1..Len(cin), j \in 1..Len(cin) :
         /\ Sim(cin, i, j).inter = Sim(cin, j, i).inter
         /\ Sim(cin, i, j).uni = Sim(cin, j, i).uni
    /\ \A n \in 1..Len(cout[1].sims) :
         LET e == cout[1].sims[n]
         IN e.inter * Sim(cin, e.j, e.i).uni = Sim(cin, e.j, e.i).inter * e.uni

\* C20 witness: two results whose token sets differ in size and overlap in
\* part were scored.
C20_Witness ==
  /\ cout # <<>>
  /\ \E n \in 1..Len(cout[1].sims) :
       LET e == cout[1].sims[n]
           a == TokenSet(cin[e.i].content)
           b == TokenSet(cin[e.j].content)
       IN /\ Cardinality(a) # Cardinality(b)
          /\ 0 < e.inter
          /\ e.inter < e.uni

\* Where s.split(" ") cuts s: before the text, at each space, after the text.
Seps(s) == {0, Len(s) + 1} \cup {k \in 1..Len(s) : s[k] = " "}

\* The pieces of s between two neighbouring cuts; a piece is empty where two
\* cuts are adjacent, and the empty text has the one empty piece.
Pieces(s) ==
  {SubSeq(s, pq[1] + 1, pq[2] - 1) :
     pq \in {x \in Seps(s) \X Seps(s) :
               /\ x[1] < x[2]
               /\ \A k \in Seps(s) : ~(x[1] < k /\ k < x[2])}}

\* The unique normalized tokens of a text.
Tokens(t) == Pieces(normalizeText(t))

C22_EmptyTextsScoreZero ==
  cout # <<>> =>
    /\ \A n \in 1..Len(cout[1].sims) :
         LET e == cout[1].sims[n]
         IN (normalizeText(cin[e.i].content) = <<>>
               /\ normalizeText(cin[e.j].content) = <<>>) => e.inter = 0
    /\ (Len(cin) = 2
          /\ normalizeText(cin[1].content) = <<>>
          /\ normalizeText(cin[2].content) = <<>>) =>
         cout[1].consensus # "pass"


\* The receipt a handler answered with, as a sequence of length 0 or 1.
AnsweredReceipt(h) ==
  IF h.pc = "done" /\ h.res[1].status = 200 THEN h.res[1].receipt ELSE <<>>

C24_RejectionNotCounted ==
  [][\A r \in Reqs :
       (req[r].pc \in {"idle", "done"} /\ req'[r] # req[r]
          /\ \E k \in 1..Len(req'[r].calls) : req'[r].calls[k].st = "tripped")
       => breaker' = breaker]_vars

\* A request answered after the breaker rejected its call, the model's
\* cooldown still running with the failure count at 0.
C24_Witness ==
  \E r \in Reqs :
    /\ req[r].pc = "done"
    /\ \E k \in 1..Len(req[r].calls) :
         /\ req[r].calls[k].st = "tripped"
         /\ breaker[req[r].models[k]] # NoEntry
         /\ breaker[req[r].models[k]][1].trippedUntil > clock
         /\ breaker[req[r].models[k]][1].failures = 0


\* The roster models from position k on that the registry allows at time
\* now, in roster order.
RECURSIVE AllowedRosterFrom(_, _, _)
AllowedRosterFrom(b, now, k) ==
  IF k > Len(OPENAI_MODELS) THEN <<>>
  ELSE (IF b[OPENAI_MODELS[k]] = NoEntry
           \/ b[OPENAI_MODELS[k]][1].trippedUntil <= now
        THEN <<OPENAI_MODELS[k]>> ELSE <<>>)
       \o AllowedRosterFrom(b, now, k + 1)

\* C25: a fan-out started without model override while some roster model is
\* allowed dispatches one call to each roster model allowed at that instant,
\* in roster order, and none to a roster model whose breaker is open.
C25_CallsGoToAllowedRoster ==
  [][\A r \in Reqs :
       (req[r].pc \in {"idle", "done"} /\ req'[r] # req[r]
          /\ req'[r].provider = "openai" /\ req'[r].override = <<>>
          /\ req'[r].models # <<>>
          /\ AllowedRosterFrom(breaker, clock, 1) # <<>>)
       => /\ req'[r].models = AllowedRosterFrom(breaker, clock, 1)
          /\ Len(req'[r].calls) = Len(req'[r].models)
          /\ \A k \in 1..Len(req'[r].calls) :
               /\ req'[r].calls[k].st = "pending"
               /\ breakerAllowed(breaker, req'[r].models[k], clock)]_vars

\* A fan-out just dispatched to two roster models, the third one's cooldown
\* running.
C25_Witness ==
  \E r \in Reqs :
    /\ req[r].pc = "await"
    /\ req[r].provider = "openai"
    /\ req[r].override = <<>>
    /\ req[r].at = clock
    /\ Len(req[r].models) = 2
    /\ \A k \in 1..Len(req[r].calls) : req[r].calls[k].st = "pending"
    /\ \E m \in Range(OPENAI_MODELS) \ Range(req[r].models) :
         breaker[m] # NoEntry /\ breaker[m][1].trippedUntil > clock


\* The failure count of model m in registry b, 0 when it has no entry.
FailuresOf(b, m) == IF b[m] = NoEntry THEN 0 ELSE b[m][1].failures

\* C26: in every registry state each model's failure count is 0, 1 or 2; it
\* is 0 right after a reportFailure that arms the cooldown (the one made at
\* count 2) and right after every reportSuccess.
C26_FailuresBelowThreshold ==
  /\ [](\A m \in ModelIds : FailuresOf(breaker, m) \in 0..2)
  /\ [][\A m \in HarnessModels :
          /\ (hist'[m].streak = hist[m].streak + 1
                 /\ FailuresOf(breaker, m) = 2)
             => /\ FailuresOf(breaker', m) = 0
                /\ breaker'[m][1].trippedUntil = clock + 60000
          /\ (hist'[m] # hist[m] /\ hist'[m].streak = 0)
             => /\ breaker'[m] # NoEntry
                /\ FailuresOf(breaker', m) = 0]_vars

\* The third failure in a row has just armed the cooldown of a model whose
\* count is back at 0, and another model was healed at count 2.
C26_Witness ==
  \E m, n \in HarnessModels :
    /\ hist[m].streak = 3
    /\ hist[m].lastFailAt = clock
    /\ breaker[m] # NoEntry
    /\ breaker[m][1].failures = 0
    /\ breaker[m][1].trippedUntil = clock + 60000
    /\ hist[n].healed
    /\ hist[n].prior = 2
    /\ hist[n].streak = 0
    /\ breaker[n] # NoEntry
    /\ breaker[n][1].failures = 0


\* C28: breakerAllowed changes no entry and creates none; a reportFailure or
\* reportSuccess for one model leaves the entry of every other model, and so
\* the answer of breakerAllowed for it, as it was.
C28_EntriesIndependent ==
  [][/\ hist' = hist => breaker' = breaker
     /\ \A m \in ModelIds :
          (m \notin HarnessModels \/ hist'[m] = hist[m])
          => /\ breaker'[m] = breaker[m]
             /\ breakerAllowed(breaker', m, clock)
                  = breakerAllowed(breaker, m, clock)]_vars

\* breakerAllowed has just answered yes for a model that still has no entry
\* while another model's cooldown is running.
C28_Witness ==
  /\ cin # <<>>
  /\ cout = <<TRUE>>
  /\ breaker[cin[1]] = NoEntry
  /\ \E m \in HarnessModels :
       /\ m # cin[1]
       /\ hist[m].streak = 3
       /\ breaker[m] # NoEntry
       /\ breaker[m][1].trippedUntil > clock


\* C27 (as claimed): whenever a cooldown ends by the passing of time alone,
\* the model's failure count is 0.
C27_ExpiredCooldownCountZero ==
  [][\A m \in ModelIds :
       (breaker' = breaker /\ clock' > clock
          /\ ~breakerAllowed(breaker, m, clock)
          /\ breakerAllowed(breaker, m, clock'))
       => FailuresOf(breaker, m) = 0]_vars


\* The reports callOpenAIOnce makes when it settles as kind, in order.
ReportsOf(kind) ==
  CASE kind = "ok" -> <<"success">>
    [] kind = "http" -> <<"failure", "failure">>
    [] kind = "tripped" -> <<>>
    [] OTHER -> <<"failure">>

\* Entry e (<<>> for none) after one report at time now.
AfterReport(e, report, now) ==
  IF report = "success" THEN <<[failures |-> 0, trippedUntil |-> 0]>>
  ELSE IF e = NoEntry THEN <<[failures |-> 1, trippedUntil |-> 0]>>
  ELSE IF e[1].failures + 1 >= 3
  THEN <<[failures |-> 0, trippedUntil |-> now + 60000]>>
  ELSE <<[failures |-> e[1].failures + 1,
          trippedUntil |-> e[1].trippedUntil]>>

\* Entry e after the reports, one after another.
RECURSIVE AfterReports(_, _, _)
AfterReports(e, reports, now) ==
  IF reports = <<>> THEN e
  ELSE AfterReports(AfterReport(e, Head(reports), now), Tail(reports), now)

\* C30: with requests running side by side, every settling call updates the
\* registry in one step from the registry as the previous event left it: the
\* model's entry is the current entry with the call's reports applied one
\* after another, and no other entry changes, so the registry is at all
\* times the result of the reports applied in the order the calls settled.
C30_ReportsAppliedInSettleOrder ==
  [][\A r \in ConcurrentReqs :
       (req[r].pc = "await" /\ req[r].calls[1].st = "pending"
          /\ req'[r].calls[1].st # "pending")
       => /\ breaker'[req[r].models[1]] =
               AfterReports(breaker[req[r].models[1]],
                            ReportsOf(req'[r].calls[1].st), clock)
          /\ \A n \in ModelIds \ {req[r].models[1]} :
               breaker'[n] = breaker[n]]_vars

\* A call has failed and been counted while an earlier call to the same
\* model, whose non-2xx response is about to be reported, is still in flight.
C30_Witness ==
  \E r, q \in ConcurrentReqs :
    /\ req[r].pc = "done"
    /\ req[r].calls[1].st \in FailKinds
    /\ req[q].pc = "await"
    /\ req[q].calls[1].st = "pending"
    /\ req[q].calls[1].status = "non2xx"
    /\ req[q].at < req[r].at
    /\ req[q].models = req[r].models
    /\ FailuresOf(breaker, req[r].models[1]) >= 1


\* The completions the stubs give for models from position k on, one per
\* model whose stub succeeds, in the order of models.
RECURSIVE StubSuccessesFrom(_, _, _)
StubSuccessesFrom(stubs, models, k) ==
  IF k > Len(models) THEN <<>>
  ELSE (IF stubs[models[k]].kind = "ok"
        THEN <<[model |-> models[k],
                content |-> IF stubs[models[k]].body = <<>> THEN <<>>
                            ELSE stubs[models[k]].body[1]]>>
        ELSE <<>>)
       \o StubSuccessesFrom(stubs, models, k + 1)

\* Request rq was answered after a fan-out none of whose calls the breaker
\* rejected.
FanOutAnswered(rq) ==
  /\ Answered(rq)
  /\ FanOutRan(rq)
  /\ \A k \in 1..Len(rq.calls) : rq.calls[k].st # "tripped"

\* C29: whatever the order in which its calls settled, an answered fan-out
\* has the stubs' successes in the order of its models, and two fan-outs over
\* the same stubs and the same candidate models return the same result and
\* answer the same.
C29_ResultIndependentOfSettleOrder ==
  \A r \in ConcurrentReqs :
    FanOutAnswered(req[r]) =>
      /\ req[r].out.successes = StubSuccessesFrom(cin, req[r].models, 1)
      /\ \A q \in ConcurrentReqs :
           (FanOutAnswered(req[q]) /\ req[q].models = req[r].models)
           => /\ req[q].out = req[r].out
              /\ req[q].res = req[r].res

\* Two fan-outs over the whole roster, both answered with the same
\* corroborated result of three successes.
C29_Witness ==
  \E r, q \in ConcurrentReqs :
    /\ r # q
    /\ FanOutAnswered(req[r])
    /\ FanOutAnswered(req[q])
    /\ req[r].models = OPENAI_MODELS
    /\ req[q].models = OPENAI_MODELS
    /\ Len(req[r].out.successes) = 3
    /\ req[r].out.consensus = "pass"
    /\ req[q].out = req[r].out


\* Model m is Open in registry b at time now: its cooldown ends later.
IsOpen(b, m, now) == b[m] # NoEntry /\ b[m][1].trippedUntil > now

\* C31: no request, with or without model override, starts a fetch to a
\* fan-out model that is Open at the moment of dispatch: the call of such a
\* model is rejected without a fetch.
C31_NoFetchToOpenModel ==
  [][\A r \in Reqs :
       (req[r].pc \in {"idle", "done"} /\ req'[r] # req[r]
          /\ req'[r].provider = "openai")
       => \A k \in 1..Len(req'[r].calls) :
            /\ req'[r].calls[k].st = "pending"
                 => ~IsOpen(breaker, req'[r].models[k], clock)
            /\ IsOpen(breaker, req'[r].models[k], clock)
                 => req'[r].calls[k].st = "tripped"]_vars

\* A request naming a model whose cooldown is running has been answered, its
\* one call rejected.
C31_Witness ==
  \E r \in Reqs :
    /\ req[r].pc = "done"
    /\ req[r].provider = "openai"
    /\ req[r].override # <<>>
    /\ req[r].at = clock
    /\ req[r].models = req[r].override
    /\ req[r].calls[1].st = "tripped"
    /\ IsOpen(breaker, req[r].override[1], clock)


\* C32 (as claimed): while a model is Open, its cooldown's end stays where
\* the arming put it; only a success clears it (to 0), and no failure
\* reported meanwhile re-arms or extends it.
C32_CooldownNotExtended ==
  [][\A m \in ModelIds :
       IsOpen(breaker, m, clock)
       => \/ breaker'[m][1].trippedUntil = breaker[m][1].trippedUntil
          \/ breaker'[m] = <<[failures |-> 0, trippedUntil |-> 0]>>]_vars


\* C33 (as claimed): every conversation sent to a backend has a client
\* message after the server's system prompt, and a request whose messages
\* are a non-empty list of system messages only is answered with an error
\* and sent nowhere.
C33_ForwardedHasClientMessage ==
  cout # <<>> =>
    /\ cout[1].models # <<>> => Len(Conversation(cout[1].sent)) >= 2
    /\ (cin.messages.kind = "array" /\ cin.messages.items # <<>>
          /\ \A k \in 1..Len(cin.messages.items) :
               cin.messages.items[k].role = "system")
       => /\ cout[1].models = <<>>
          /\ cout[1].pc = "done"
          /\ ~cout[1].res[1].ok


\* C34 (as claimed): every seal request with a valid hash is answered with
\* the PDF generated for it, also when another request with the same temp
\* path runs at the same time, and a temp file is unlinked only when no
\* other response is sending it or about to send it.
C34_SealDeliversOwnPdf ==
  /\ [](\A r \in Handlers :
          /\ req[r].pc # "hung"
          /\ (req[r].pc = "done" /\ req[r].res[1].status = 200)
             => req[r].res[1].pdf = req[r].pdf)
  /\ [][\A p \in TmpPaths :
          (tmp.dir[p] # 0 /\ tmp'.dir[p] = 0)
          => \A q \in Handlers :
               (req[q].path = p /\ req[q].pc \in {"stat", "read"})
               => req'[q].pc = "done"]_vars

====
